---- MODULE Spec2Model ----
(***************************************************************************)
(* A model of the HackApp middleware (src/hackapp/middleware):             *)
(*   - the REST connector with its retry loop        (connector.py)        *)
(*   - the visual workflow interpreter               (visual_executor.py)  *)
(*   - the declarative workflow engine               (workflow_engine.py)  *)
(*   - the orchestration server's HTTP handlers      (main.py)             *)
(*   - the visual workflow JSON store                (visual_workflows.py) *)
(* Each subsystem has its own specification over its own variables; the    *)
(* variables of the other subsystems are left unchanged.                   *)
(***************************************************************************)
EXTENDS Integers, Sequences, FiniteSets, TLC

VARIABLES
    \* ---- connector.py: one RestApiConnector and its current execute call
    conn_pc,        \* "new" | "ready" | "requesting" | "done"
    config,         \* self.config (auth, endpoints, retry_policy)
    attempt,        \* loop variable of _make_request
    last_error,     \* last_error of _make_request
    requests,       \* upstream outcomes of the requests issued by this call
    sleeps,         \* arguments of the time.sleep calls of this call, in ms
    conn_result,    \* what construction / execute handed to the caller
    \* ---- visual_executor.py: the WorkflowExecutor and its current execute call
    exec_pc,        \* "idle" | "running" | "done"
    workflow,       \* workflow["steps"] of the call
    initial_variables, \* the initial_variables argument
    variables,      \* self.variables
    results,        \* results
    position,       \* index of the step the for loop looks at next
    response,       \* the dict execute returns
    executed,       \* indices of the steps handed to _execute_step, in order
    before_step,    \* self.variables when the last _execute_step call began
    stale,          \* whether self.variables held something else than the initial variables when the call began
    cleanups,       \* what each _cleanup_resources call of this call met
    keys_up,        \* the keys the pyautogui.keyUp calls of this call released, in order
    \* ---- main.py, visual_workflows.py, audit.py: the orchestration server
    store,          \* the list of visual workflows in config/visual_workflows.json
    picker_sessions,    \* picker_sessions
    current_session_id, \* current_session_id
    agent_process,  \* agent_process: 0 for None, else the pid of the process it is the handle of
    alive,          \* the pids of the agent processes that have not exited
    starting,       \* the pids spawned by the start_agent calls suspended in asyncio.sleep, oldest first
    audit,          \* the workflow_execution entries of the audit log
    http,           \* the request being answered, with its response
    \* ---- visual_workflows.py: the storage calls of requests in flight
    calls,          \* the create, update and delete calls: what each is at, what it loaded
    \* ---- visual_executor.py: a _render_template call
    render,         \* the template, self.variables and what the call returned
    \* ---- workflow_engine.py: a WorkflowEngine built from a catalog, and its match_hotkey calls
    engine,         \* the catalog, self.workflows and what each match_hotkey call was asked and returned
    \* ---- agent/main.py, agent/middleware_client.py: the HackAppAgent and its start call
    agent,          \* where start is, what the server is like, what was loaded, the listeners started
    \* ---- agent/agent_api.py: the callback server of the agent
    clipboard,      \* the system clipboard pyperclip reads and writes
    writes,         \* the execute_write_coords requests: where each is, what it saved, what it answered
    \* ---- agent/main.py, agent/inserter.py: a press of a workflow hotkey on the desktop
    pressed,        \* what the trigger gave, the insertions made and left, the events the desktop got
    agent_posts    \* the requests the running execute call has posted to the agent's /execute/write_coords, each with the status the agent answered

connVars == <<conn_pc, config, attempt, last_error, requests, sleeps, conn_result>>

execVars == <<exec_pc, workflow, initial_variables, variables, results, position, response,
              executed, before_step, stale, cleanups, keys_up>>

serverVars == <<store, picker_sessions, current_session_id, agent_process, alive, starting,
                audit, http>>

storageVars == <<calls>>

renderVars == <<render>>

registryVars == <<engine>>

rootVars == <<agent>>

apiVars == <<clipboard, writes>>

insertVars == <<pressed>>

postVars == <<agent_posts>>

vars == <<connVars, execVars, serverVars, storageVars, renderVars, registryVars, rootVars, apiVars, insertVars, postVars>>

(***************************************************************************)
(* Bounds of the model                                                     *)
(***************************************************************************)
\* largest max_retries explored (RetryPolicy allows 0..5)
MaxRetries == 2
\* longest list of steps of an executed visual workflow
MaxSteps == 3
\* most visual workflows the store is let grow to
MaxStored == 3
\* most start_agent calls suspended at once
MaxStarting == 2
\* most entries the audit log is let grow to
MaxAudit == 2
\* most storage calls of requests in flight
MaxCalls == 3
\* most pieces a template is put together from
MaxPieces == 4
\* most start_agent calls suspended at once among the traffic to every endpoint
MaxStartingServer == 1
\* most workflows of a catalog the engine is built from
MaxCatalog == 2
\* most match_hotkey calls on one engine
MaxLookups == 3
\* most visual workflows the server lists to the agent
MaxListed == 2
\* most write_coords requests the callback server gets
MaxWrites == 3
\* most insertion instructions in a response to the agent
MaxInsertions == 2

\* steps of a workflow of write_coords steps
MaxWriteSteps == 2

(***************************************************************************)
(* connector.py                                                            *)
(***************************************************************************)

\* A ConnectorError error_code.  f"HTTP_{status_code}" is the pair
\* ("HTTP", status_code); the other codes carry status 0.
ErrCode(name, status) == [name |-> name, status |-> status]

NoError == ErrCode("NONE", 0)

\* What a call handed back: a returned value or a raised exception.
NoResult == [kind |-> "none", exc |-> "none", code |-> NoError, body |-> "none"]

Returned(body) == [kind |-> "return", exc |-> "none", code |-> NoError, body |-> body]

\* raise ConnectorError(message, error_code)
ConnectorError(code) == [kind |-> "raise", exc |-> "ConnectorError", code |-> code, body |-> "none"]

\* an exception that is not a ConnectorError
OtherException(type) == [kind |-> "raise", exc |-> type, code |-> NoError, body |-> "none"]

\* RetryPolicy(max_retries, backoff, initial_delay); initial_delay in milliseconds
NoRetryPolicy == [present |-> FALSE, max_retries |-> 0, backoff |-> "fixed", initial_delay |-> 0]

RetryPolicies ==
    { [present |-> TRUE, max_retries |-> m, backoff |-> b, initial_delay |-> d] :
        m \in 0..MaxRetries, b \in {"fixed", "exponential"}, d \in {100, 1000} }

\* AuthConfig: type, whether a literal token is given, whether token_env is
\* given, and whether the environment holds that variable.
AuthConfigs ==
    { a \in [type : {"none", "bearer_token", "api_key", "basic"},
             token : BOOLEAN, token_env : BOOLEAN, env_set : BOOLEAN] :
        /\ (a.env_set => a.token_env)
        /\ (a.type \in {"none", "basic"} => ~a.token /\ ~a.token_env)
        /\ (a.token => ~a.token_env) }

EndpointNames == {"summarize", "unknown_endpoint"}

\* ConnectorConfig; endpoints is the set of configured endpoint names
ConnectorConfigs ==
    { [type |-> t, auth |-> a, endpoints |-> {"summarize"}, retry_policy |-> r] :
        t \in {"rest_api", "soap", "custom"},
        a \in AuthConfigs,
        r \in RetryPolicies \cup {NoRetryPolicy} }

NoConfig == [type |-> "none", auth |-> [type |-> "none", token |-> FALSE, token_env |-> FALSE, env_set |-> FALSE],
             endpoints |-> {}, retry_policy |-> NoRetryPolicy]

\* What one session.request(...) call meets upstream.
NotJson == "<html>"
JsonBody == "{json}"

Response(status, body) == [kind |-> "response", status |-> status, body |-> body]

Outcomes ==
    { Response(200, b) : b \in {JsonBody, NotJson} }
    \cup { Response(s, NotJson) : s \in {400, 404, 500, 503} }
    \cup { [kind |-> k, status |-> 0, body |-> NotJson] : k \in {"timeout", "connection_error", "exception"} }

\* _get_token_from_env: the error it raises, NoError when it returns a token
GetTokenFromEnv(auth) ==
    IF ~auth.token_env THEN ErrCode("AUTH_ERROR", 0)
    ELSE IF ~auth.env_set THEN ErrCode("AUTH_ERROR", 0)
    ELSE NoError

\* _setup_auth: token = auth.token or self._get_token_from_env(auth.token_env)
SetupAuth(auth) ==
    IF auth.type \in {"bearer_token", "api_key"}
    THEN (IF auth.token THEN NoError ELSE GetTokenFromEnv(auth))
    ELSE NoError

\* create_connector(config) -> RestApiConnector(config)
CreateConnector(cfg) ==
    IF cfg.type = "rest_api"
    THEN (IF SetupAuth(cfg.auth) = NoError THEN Returned("connector")
          ELSE ConnectorError(SetupAuth(cfg.auth)))
    ELSE IF cfg.type \in {"soap", "custom"} THEN OtherException("NotImplementedError")
    ELSE OtherException("ValueError")

\* retry_policy.max_retries if retry_policy else 0, and so on
max_retries == IF config.retry_policy.present THEN config.retry_policy.max_retries ELSE 0
backoff == IF config.retry_policy.present THEN config.retry_policy.backoff ELSE "fixed"
initial_delay == IF config.retry_policy.present THEN config.retry_policy.initial_delay ELSE 1000

RECURSIVE Pow2(_)
Pow2(n) == IF n = 0 THEN 1 ELSE 2 * Pow2(n - 1)

DelayMutant(bo, d, k) == IF bo = "exponential" THEN d * Pow2(k + 1) ELSE d

\* the delay slept after failed attempt k
Delay(bo, d, k) == IF bo = "exponential" THEN d * Pow2(k) ELSE d

AttemptsMutant(m) == m + 2

\* range(max_retries + 1)
Attempts(m) == m + 1

IsClientErrorMutant(status) == FALSE

\* 400 <= e.response.status_code < 500
IsClientError(status) == 400 <= status /\ status < 500

\* response.raise_for_status() raises HTTPError for 4xx and 5xx
RaisesForStatus(status) == 400 <= status /\ status < 600

\* the code of the catch-all handlers
UnknownError == ErrCode("UNKNOWN_ERROR", 0)

TimeoutErrorMutant == ErrCode("CONNECTOR_ERROR", 0)

\* except requests.exceptions.Timeout: ConnectorError(..., "TIMEOUT", ...)
TimeoutError == ErrCode("TIMEOUT", 0)

\* the error an outcome that is retried leaves in last_error
RetriableError(o) ==
    CASE o.kind = "timeout" -> TimeoutError
      [] o.kind = "connection_error" -> ErrCode("CONNECTION_ERROR", 0)
      [] o.kind = "response" -> ErrCode("SERVER_ERROR", 0)
      [] OTHER -> UnknownError

KeepFirstErrorMutant(old, new) == IF old = NoError THEN new ELSE old

\* last_error = ConnectorError(...) in each retried handler
AssignLastError(old, new) == new

\* response.json(): the parsed body, or ValueError -> INVALID_RESPONSE
ParseJson(body) ==
    IF body = JsonBody THEN Returned(body) ELSE ConnectorError(ErrCode("INVALID_RESPONSE", 0))

ConnInit ==
    /\ conn_pc = "new"
    /\ config = NoConfig
    /\ attempt = 0
    /\ last_error = NoError
    /\ requests = <<>>
    /\ sleeps = <<>>
    /\ conn_result = NoResult

\* create_connector / RestApiConnector.__init__
Construct(cfg) ==
    /\ conn_pc = "new"
    /\ config' = cfg
    /\ conn_result' = CreateConnector(cfg)
    /\ conn_pc' = IF CreateConnector(cfg).kind = "return" THEN "ready" ELSE "done"
    /\ UNCHANGED <<attempt, last_error, requests, sleeps>>

\* execute up to the first request: url = self._get_endpoint_url(endpoint)
Execute(endpoint) ==
    /\ conn_pc = "ready"
    /\ attempt' = 0
    /\ last_error' = NoError
    /\ requests' = <<>>
    /\ sleeps' = <<>>
    /\ IF endpoint \notin config.endpoints
       THEN /\ conn_result' = ConnectorError(ErrCode("INVALID_ENDPOINT", 0))
            /\ conn_pc' = "done"
       ELSE /\ conn_result' = NoResult
            /\ conn_pc' = "requesting"
    /\ UNCHANGED config

\* one iteration of "for attempt in range(max_retries + 1)", with what
\* follows the loop or the return when this iteration is the last
Attempt(o) ==
    /\ conn_pc = "requesting"
    /\ attempt < Attempts(max_retries)
    /\ requests' = Append(requests, o)
    /\ UNCHANGED config
    /\ IF o.kind = "response" /\ ~RaisesForStatus(o.status)
       THEN \* return response; execute parses it
            /\ conn_result' = ParseJson(o.body)
            /\ conn_pc' = "done"
            /\ UNCHANGED <<attempt, last_error, sleeps>>
       ELSE IF o.kind = "response" /\ IsClientError(o.status)
       THEN \* raise ConnectorError(..., f"HTTP_{status_code}")
            /\ conn_result' = ConnectorError(ErrCode("HTTP", o.status))
            /\ conn_pc' = "done"
            /\ UNCHANGED <<attempt, last_error, sleeps>>
       ELSE /\ last_error' = AssignLastError(last_error, RetriableError(o))
            /\ sleeps' = IF attempt < max_retries
                         THEN Append(sleeps, Delay(backoff, initial_delay, attempt))
                         ELSE sleeps
            /\ attempt' = attempt + 1
            /\ IF attempt + 1 < Attempts(max_retries)
               THEN /\ conn_result' = NoResult
                    /\ conn_pc' = "requesting"
               ELSE \* raise last_error
                    /\ conn_result' = ConnectorError(last_error')
                    /\ conn_pc' = "done"

\* the caller has the result; the connector, if built, serves the next call
ConnNext ==
    /\ conn_pc = "done"
    /\ conn_pc' = IF config.type = "rest_api" /\ SetupAuth(config.auth) = NoError THEN "ready" ELSE "new"
    /\ conn_result' = NoResult
    /\ UNCHANGED <<config, attempt, last_error, requests, sleeps>>


(***************************************************************************)
(* visual_executor.py                                                      *)
(***************************************************************************)

\* a key a step dict does not have
Missing == "<missing>"

\* Strings the interpreter computes on are sequences of characters.
Digits == {"0", "1", "2", "3", "4", "5", "6", "7", "8", "9"}
Whitespace == {" "}

\* A value of the environment: a string or a mapping (ordered items
\* <<key, string>>).
Str(chars) == [kind |-> "str", str |-> chars, items |-> <<>>]
Map(items) == [kind |-> "map", str |-> <<>>, items |-> items]

\* d[k] = v on a dict
Put(d, k, v) == [x \in (DOMAIN d) \cup {k} |-> IF x = k THEN v ELSE d[x]]

EmptyDict == [x \in {} |-> Str(<<>>)]

RECURSIVE LStrip(_)
LStrip(t) == IF t # <<>> /\ Head(t) \in Whitespace THEN LStrip(Tail(t)) ELSE t

RECURSIVE RStrip(_)
RStrip(t) == IF t # <<>> /\ t[Len(t)] \in Whitespace THEN RStrip(SubSeq(t, 1, Len(t) - 1)) ELSE t

\* str.strip()
Strip(t) == RStrip(LStrip(t))

RECURSIVE TakeDigits(_)
TakeDigits(t) == IF t # <<>> /\ Head(t) \in Digits THEN <<Head(t)>> \o TakeDigits(Tail(t)) ELSE <<>>

RECURSIVE FirstDigitRun(_)
\* re.findall(r'\d+', text)[0], <<>> when findall finds nothing
FirstDigitRun(t) ==
    IF t = <<>> THEN <<>>
    ELSE IF Head(t) \in Digits THEN TakeDigits(t)
    ELSE FirstDigitRun(Tail(t))

\* str.upper() on the letters the sheets and texts of the model use
UpperChar(c) ==
    CASE c = "a" -> "A" [] c = "b" -> "B" [] c = "d" -> "D" [] c = "i" -> "I" [] c = "j" -> "J"
      [] OTHER -> c

Upper(t) == [i \in 1..Len(t) |-> UpperChar(t[i])]

\* whether needle occurs in hay
Contains(hay, needle) ==
    \E i \in 1..(Len(hay) - Len(needle) + 1) : SubSeq(hay, i, i + Len(needle) - 1) = needle

\* Series.str.contains(str(search_value), case=False)
ContainsNoCase(hay, needle) == Contains(Upper(hay), Upper(needle))

\* the workbook the lookup_excel steps of the model read
PatientsSheet ==
    << [ID |-> <<"1", "0", "0", "7">>, Name |-> <<"B", "o", "b">>, Dx |-> <<"F", "l", "u">>],
       [ID |-> <<"0", "0", "7">>, Name |-> <<"A", "l", "i">>, Dx |-> <<"P", "n">>] >>

SheetColumns == {"ID", "Name", "Dx"}

\* what formatting by the LLM yields when the call succeeds
FormattedFields == Map(<< <<"Note", <<"o", "k">>>> >>)

\* A step of a visual workflow, as the fields the interpreter reads.
Step(id, type, enabled, input, output) ==
    [step_id |-> id, step_type |-> type, enabled |-> enabled,
     input_variable |-> input, output_variable |-> output,
     extract_numbers |-> TRUE, search_column |-> "ID", return_columns |-> <<"Name", "Dx">>,
     content_template |-> <<>>]

\* The steps workflows of the model are made of; the step_id is the position
\* of the step in its workflow unless the step has none.
StepTemplates ==
    { Step("", "read_coords", TRUE, Missing, "patient_id"),
      Step("", "lookup_excel", TRUE, "patient_id", "data"),
      Step("", "format_with_llm", TRUE, "data", Missing),
      Step("", "write_coords", TRUE, Missing, Missing),
      Step("", "transcribe_audio", TRUE, Missing, "text"),
      Step("", "record_audio", TRUE, Missing, Missing),
      Step("", "lookup_db", TRUE, Missing, "db_data"),
      Step("", "lookup_db", FALSE, Missing, "db_data"),
      Step("", "send_email", TRUE, Missing, Missing),
      Step(Missing, "record_audio", TRUE, Missing, "patient_id") }

StepIds == <<"1", "2", "3", "4", "5">>

WithId(tpl, i) == IF tpl.step_id = Missing THEN tpl ELSE [tpl EXCEPT !.step_id = StepIds[i]]

Workflows ==
    UNION { { [i \in 1..n |-> WithId(t[i], i)] : t \in [1..n -> StepTemplates] } : n \in 0..MaxSteps }

\* the initial_variables callers pass (None is the empty dict)
InitialVariables ==
    { EmptyDict,
      [x \in {"transcription"} |-> Str(<<"h", "i">>)],
      [x \in {"transcription", "patient_id"} |->
          IF x = "transcription" THEN Str(<<"h", "i">>) ELSE Str(<<"1", "2">>)] }

\* What the world outside the interpreter does during one step: whether the
\* libraries import, what OCR reads, whether the workbook exists, what the
\* LLM endpoint and the agent answer.
Env(kind, text) == [kind |-> kind, ocr_text |-> text]

StepEnvs(type) ==
    CASE type = "read_coords" ->
            { Env("import_error", <<>>), Env("exception", <<>>),
              Env("ok", <<" ">>), Env("ok", <<"I", "D">>),
              Env("ok", <<"I", "D", " ", "0", "0", "7", "X", "1", " ">>) }
      [] type = "lookup_excel" ->
            { Env(k, <<>>) : k \in {"import_error", "no_file", "exception", "ok"} }
      [] type = "format_with_llm" ->
            { Env(k, <<>>) : k \in {"import_error", "api_error", "no_choices", "exception", "ok"} }
      [] type = "write_coords" ->
            { Env(k, <<>>) : k \in {"import_error", "agent_error", "unreachable", "timeout", "exception", "ok"} }
      [] OTHER -> { Env("ok", <<>>) }

\* the worlds the step the for loop is at can meet
CurrentEnvs ==
    IF exec_pc = "running" /\ position <= Len(workflow)
    THEN StepEnvs(workflow[position].step_type)
    ELSE {}

(***************************************************************************)
(* visual_executor.py: _render_template                                    *)
(***************************************************************************)

\* the characters [a-zA-Z0-9_. ] of the pattern, among those of the model
NameChars == {"a", "b", "c", ".", " "}

\* the pieces the templates of the model are put together from
Pieces ==
    { <<"{">>, <<"}">>, <<"-">>, <<".">>,
      <<"{", "a", "}">>, <<"{", "b", "}">>, <<"{", "b", ".", "a", "}">>,
      <<"{", " ", "b", " ", ".", " ", "c", " ", "}">> }

RECURSIVE Flatten(_)
Flatten(pieces) == IF pieces = <<>> THEN <<>> ELSE Head(pieces) \o Flatten(Tail(pieces))

\* the templates of up to most pieces
Templates(most) == UNION { { Flatten(ps) : ps \in [1..n -> Pieces] } : n \in 0..most }

\* self.variables at the call: names to strings and to mappings of strings
RenderVariables ==
    { EmptyDict,
      [x \in {"a", "b"} |-> IF x = "a" THEN Str(<<"{", "a", "}">>) ELSE Map(<< <<"c", <<"y">>>> >>)] }

\* the longest run of NameChars at the head of t
RECURSIVE TakeName(_)
TakeName(t) == IF t # <<>> /\ Head(t) \in NameChars THEN <<Head(t)>> \o TakeName(Tail(t)) ELSE <<>>

\* str.split('.')
RECURSIVE Split(_)
Split(t) ==
    LET first == CHOOSE n \in 0..Len(t) :
                    /\ \A k \in 1..n : t[k] # "."
                    /\ (n = Len(t) \/ t[n + 1] = ".")
    IN IF first = Len(t) THEN <<t>>
       ELSE <<SubSeq(t, 1, first)>> \o Split(SubSeq(t, first + 2, Len(t)))

\* the key a part names: the names of the model are one character long
KeyOf(part) == IF Len(part) = 1 THEN part[1] ELSE "<no such key>"

\* a mapping inside self.variables, as a function
ItemsOf(value) ==
    [k \in { value.items[i][1] : i \in 1..Len(value.items) } |->
        Str((CHOOSE item \in { value.items[i] : i \in 1..Len(value.items) } : item[1] = k)[2])]

RECURSIVE ReprItems(_)
ReprItems(items) ==
    IF items = <<>> THEN <<>>
    ELSE <<"'", Head(items)[1], "'", ":", " ", "'">> \o Head(items)[2] \o <<"'">>
         \o (IF Len(items) > 1 THEN <<",", " ">> ELSE <<>>) \o ReprItems(Tail(items))

\* str(value)
StrOf(value) == IF value.kind = "str" THEN value.str ELSE <<"{">> \o ReprItems(value.items) \o <<"}">>

\* the {UNDEFINED: that opens the token _render_template leaves for a
\* variable it does not find
UndefinedToken == <<"{", "U", "N", "D", "E", "F", "I", "N", "E", "D", ":">>

\* f"{{UNDEFINED:{var_path}}}"
Undefined(var_path) == UndefinedToken \o var_path \o <<"}">>

LookupKeyMutant(part) == KeyOf(part)

\* part = part.strip()
LookupKey(part) == KeyOf(Strip(part))

\* the for loop of replace_var from the mapping d on: the string of the value
\* the parts lead to, "unresolved" when a part is no key of a mapping
RECURSIVE Traverse(_, _)
Traverse(d, parts) ==
    IF LookupKey(Head(parts)) \notin DOMAIN d THEN [resolved |-> FALSE, str |-> <<>>]
    ELSE LET value == d[LookupKey(Head(parts))] IN
         IF Len(parts) = 1 THEN [resolved |-> TRUE, str |-> StrOf(value)]
         ELSE IF value.kind = "map" THEN Traverse(ItemsOf(value), Tail(parts))
         ELSE [resolved |-> FALSE, str |-> <<>>]

\* replace_var
ReplaceVar(var_path, vs) ==
    LET found == Traverse(vs, Split(var_path))
    IN IF found.resolved THEN found.str ELSE Undefined(var_path)

\* re.sub(r'\{([a-zA-Z0-9_. ]+)\}', replace_var, template): the leftmost
\* match, then the rest of the template behind it
RECURSIVE RenderTemplate(_, _)
RenderTemplate(t, vs) ==
    IF t = <<>> THEN <<>>
    ELSE IF Head(t) = "{"
    THEN LET name == TakeName(Tail(t)) IN
         IF name # <<>> /\ Len(t) >= Len(name) + 2 /\ t[Len(name) + 2] = "}"
         THEN ReplaceVar(name, vs) \o RenderTemplate(SubSeq(t, Len(name) + 3, Len(t)), vs)
         ELSE <<"{">> \o RenderTemplate(Tail(t), vs)
    ELSE <<Head(t)>> \o RenderTemplate(Tail(t), vs)

\* What a step method does: it returns a result dict (status, error) or
\* raises, and leaves self.variables as vars.
StepReturn(status, error, vs) == [kind |-> "return", status |-> status, error |-> error, vars |-> vs]
StepRaise(error, vs) == [kind |-> "raise", status |-> "error", error |-> error, vars |-> vs]

Success(vs) == StepReturn("success", "", vs)
Error(msg, vs) == StepReturn("error", msg, vs)

\* _read_coords
ReadCoords(step, vs, env) ==
    IF env.kind = "import_error" THEN Error("Missing dependency", vs)
    ELSE IF env.kind = "exception" \/ step.output_variable = Missing THEN Error("OCR failed", vs)
    ELSE LET text == Strip(env.ocr_text) IN
         IF text = <<>> THEN Error("No text found", vs)
         ELSE IF step.extract_numbers
         THEN (IF FirstDigitRun(text) = <<>> THEN Error("No numbers found", vs)
               ELSE Success(Put(vs, step.output_variable, Str(FirstDigitRun(text)))))
         ELSE Success(Put(vs, step.output_variable, Str(text)))

\* the first row of the sheet whose search column contains the value, 0 if none
FirstMatch(column, value) ==
    LET hits == { i \in 1..Len(PatientsSheet) : ContainsNoCase(PatientsSheet[i][column], value) }
    IN IF hits = {} THEN 0 ELSE CHOOSE i \in hits : \A j \in hits : i <= j

\* {col: str(row[col]) for col in return_columns}
Project(row, columns) == Map([i \in 1..Len(columns) |-> <<columns[i], row[columns[i]]>>])

\* _lookup_excel
LookupExcel(step, vs, env) ==
    IF env.kind = "import_error" THEN Error("pandas not installed", vs)
    ELSE IF env.kind = "no_file" THEN Error("Excel file not found", vs)
    ELSE IF step.input_variable = Missing \/ step.output_variable = Missing
    THEN Error("Excel lookup failed", vs)
    ELSE IF step.input_variable \notin DOMAIN vs THEN Error("Variable not found", vs)
    ELSE IF env.kind = "exception" \/ step.search_column \notin SheetColumns
    THEN Error("Excel lookup failed", vs)
    ELSE LET value == vs[step.input_variable]
             row == IF value.kind = "str" THEN FirstMatch(step.search_column, value.str) ELSE 0
         IN IF row = 0 THEN Error("No match found", vs)
            ELSE IF \E i \in 1..Len(step.return_columns) : step.return_columns[i] \notin SheetColumns
            THEN Error("Column not found", vs)
            ELSE Success(Put(vs, step.output_variable, Project(PatientsSheet[row], step.return_columns)))

\* _lookup_db and _lookup_api
LookupNotImplemented(step, vs, env) == Error("not implemented yet", vs)

\* _format_with_llm; output_variable defaults to "formatted_fields"
FormatWithLlm(step, vs, env) ==
    IF env.kind = "import_error" THEN Error("requests not installed", vs)
    ELSE IF step.input_variable \notin DOMAIN vs THEN Error("Variable not found", vs)
    ELSE IF env.kind = "exception" THEN Error("LLM formatting failed", vs)
    ELSE IF env.kind = "api_error" THEN Error("Groq API error", vs)
    ELSE IF env.kind = "no_choices" THEN Error("No response from Groq", vs)
    ELSE Success(Put(vs, IF step.output_variable = Missing THEN "formatted_fields" ELSE step.output_variable,
                     FormattedFields))

\* content.startswith("{UNDEFINED:")
StartsUndefined(content) ==
    /\ Len(content) >= Len(UndefinedToken)
    /\ SubSeq(content, 1, Len(UndefinedToken)) = UndefinedToken

\* what the agent answers to a post: its status code, 0 when requests.post
\* gives up after the timeout of 10 seconds
AgentAnswer(env) ==
    CASE env.kind = "ok" -> 200
      [] env.kind = "agent_error" -> 500
      [] OTHER -> 0

\* payload of the requests.post of _write_coords, with the answer it meets;
\* x, y, insert_method and key_sequence are copied from the step unchanged
\* and left out
Payload(content, env) == [content |-> content, status_code |-> AgentAnswer(env)]

\* the posts a step makes: _write_coords posts once unless requests does
\* not import, reading the step raises, or no connection is made
Posted(step, vs, env) ==
    IF /\ step.step_type = "write_coords"
       /\ env.kind \in {"ok", "agent_error", "timeout"}
    THEN <<Payload(RenderTemplate(step.content_template, vs), env)>>
    ELSE <<>>

WriteCoordsMutant(step, vs, env) ==
    CASE env.kind = "import_error" -> Error("requests library not available", vs)
      [] env.kind = "exception" -> Error("Write failed", vs)
      [] OTHER ->
           LET content == RenderTemplate(step.content_template, vs) IN
           IF content = <<>> \/ StartsUndefined(content) THEN Error("Write failed", vs)
           ELSE CASE env.kind = "agent_error" -> Error("Agent error", vs)
                  [] env.kind = "unreachable" -> Error("Cannot connect to agent API", vs)
                  [] env.kind = "timeout" -> Error("Agent API timeout", vs)
                  [] OTHER -> Success(vs)

\* _write_coords: renders the template, posts to the agent, writes no
\* variable; content that is empty or starts with the token only prints a
\* warning
WriteCoords(step, vs, env) ==
    CASE env.kind = "import_error" -> Error("requests library not available", vs)
      [] env.kind = "exception" -> Error("Write failed", vs)
      [] OTHER ->
           LET content == RenderTemplate(step.content_template, vs)
               warned == content = <<>> \/ StartsUndefined(content)
           IN CASE env.kind = "agent_error" -> Error("Agent error", vs)
                [] env.kind = "unreachable" -> Error("Cannot connect to agent API", vs)
                [] env.kind = "timeout" -> Error("Agent API timeout", vs)
                [] OTHER -> Success(vs)

\* _record_audio; output_variable defaults to "audio_file"
RecordAudio(step, vs, env) ==
    Success(Put(vs, IF step.output_variable = Missing THEN "audio_file" ELSE step.output_variable,
                Str(<<"a", "u", "d", "i", "o", "_", "r", "e", "c", "o", "r", "d", "e", "d">>)))

\* _transcribe_audio (and _speech_to_text, which calls it); output_variable
\* defaults to "transcription"
TranscribeAudio(step, vs, env) ==
    LET out == IF step.output_variable = Missing THEN "transcription" ELSE step.output_variable IN
    IF "transcription" \in DOMAIN vs
    THEN (IF vs["transcription"].kind # "str" THEN Error("Transcription failed", vs)
          ELSE IF out # "transcription" THEN Success(Put(vs, out, vs["transcription"]))
          ELSE Success(vs))
    ELSE Error("No transcription available", vs)

\* the method _execute_step dispatches to, as if the step had a step_id
Dispatch(step, vs, env) ==
    CASE step.step_type = "read_coords" -> ReadCoords(step, vs, env)
      [] step.step_type = "lookup_excel" -> LookupExcel(step, vs, env)
      [] step.step_type \in {"lookup_db", "lookup_api"} -> LookupNotImplemented(step, vs, env)
      [] step.step_type = "format_with_llm" -> FormatWithLlm(step, vs, env)
      [] step.step_type = "write_coords" -> WriteCoords(step, vs, env)
      [] step.step_type = "record_audio" -> RecordAudio(step, vs, env)
      [] step.step_type \in {"transcribe_audio", "speech_to_text"} -> TranscribeAudio(step, vs, env)
      [] OTHER -> Error("Unknown step type", vs)

\* _execute_step: every result dict is built with step["step_id"], so a step
\* without step_id makes the method, its handler and _execute_step's handler
\* raise KeyError in turn; a step without step_type raises before the try.
ExecuteStep(step, vs, env) ==
    IF step.step_type = Missing THEN StepRaise("'step_type'", vs)
    ELSE IF step.step_id = Missing THEN StepRaise("'step_id'", Dispatch(step, vs, env).vars)
    ELSE Dispatch(step, vs, env)

\* an entry of results
Result(step, r) == [step_id |-> step.step_id, status |-> r.status, error |-> r.error]

NoStepId == "<absent>"
NoResponse == [status |-> "none", error |-> "", step_id |-> NoStepId, variables |-> EmptyDict, steps |-> <<>>]

ShortCircuitsMutant(r) == FALSE

\* if step_result["status"] == "error"
ShortCircuits(r) == r.status = "error"

ExecInit ==
    /\ exec_pc = "idle"
    /\ workflow = <<>>
    /\ initial_variables = EmptyDict
    /\ variables = EmptyDict
    /\ results = <<>>
    /\ position = 1
    /\ response = NoResponse
    /\ executed = <<>>
    /\ before_step = EmptyDict
    /\ stale = FALSE
    /\ cleanups = <<>>
    /\ keys_up = <<>>

ResetVariablesMutant(old, init) == IF init = EmptyDict THEN old ELSE init

\* self.variables = initial_variables.copy() if initial_variables else {}
ResetVariables(old, init) == init

EnabledMutant(step) == TRUE

\* step.get("enabled", True)
Enabled(step) == step.enabled

\* what a _cleanup_resources call can meet: pyautogui does not import, a
\* keyUp call raises, or all three return
CleanupOutcomes == {"import_error", "ctrl_raises", "alt_raises", "shift_raises", "ok"}

\* _cleanup_resources: the keys it releases before the bare except swallows
\* what was raised
CleanupResources(outcome) ==
    CASE outcome \in {"import_error", "ctrl_raises"} -> <<>>
      [] outcome = "alt_raises" -> <<"ctrl">>
      [] outcome = "shift_raises" -> <<"ctrl", "alt">>
      [] OTHER -> <<"ctrl", "alt", "shift">>

CleansUpMutant(path) == path # "exception"

\* whether execute calls _cleanup_resources before the return of the path:
\* "step_error" (a step result with status error), "success" (the loop is
\* over), "exception" (the except Exception handler)
CleansUp(path) == path \in {"step_error", "success", "exception"}

\* the _cleanup_resources call of a path of execute
Cleanup(path) ==
    IF CleansUp(path)
    THEN \E outcome \in CleanupOutcomes :
            /\ cleanups' = Append(cleanups, outcome)
            /\ keys_up' = keys_up \o CleanupResources(outcome)
    ELSE UNCHANGED <<cleanups, keys_up>>

\* execute(workflow, initial_variables) up to the for loop
BeginExecute(wf, init) ==
    /\ workflow' = wf
    /\ initial_variables' = init
    /\ variables' = ResetVariables(variables, init)
    /\ before_step' = ResetVariables(variables, init)
    /\ stale' = (variables # init)
    /\ cleanups' = <<>>
    /\ keys_up' = <<>>
    /\ exec_pc' = "running"
    /\ results' = <<>>
    /\ position' = 1
    /\ response' = NoResponse
    /\ executed' = <<>>

\* a caller of the executor calls execute
ExecutorStart ==
    /\ exec_pc = "idle"
    /\ \E wf \in Workflows, init \in InitialVariables : BeginExecute(wf, init)

\* an iteration of the for loop on a step with enabled false: continue
SkipDisabled ==
    /\ exec_pc = "running"
    /\ position <= Len(workflow)
    /\ ~Enabled(workflow[position])
    /\ position' = position + 1
    /\ UNCHANGED <<exec_pc, workflow, initial_variables, variables, results, response, executed, before_step,
                   stale, cleanups, keys_up>>

\* an iteration of the for loop on an enabled step, with the return it leads
\* to when the step fails or raises
RunStep(env) ==
    /\ exec_pc = "running"
    /\ position <= Len(workflow)
    /\ Enabled(workflow[position])
    /\ LET step == workflow[position]
           r == ExecuteStep(step, variables, env)
       IN /\ executed' = Append(executed, position)
          /\ before_step' = variables
          /\ variables' = r.vars
          /\ IF r.kind = "raise"
             THEN \* except Exception as e: _cleanup_resources(); return {...}
                  /\ results' = results
                  /\ response' = [status |-> "error", error |-> r.error, step_id |-> NoStepId,
                                  variables |-> r.vars, steps |-> <<>>]
                  /\ Cleanup("exception")
                  /\ exec_pc' = "done"
                  /\ position' = position
             ELSE /\ results' = Append(results, Result(step, r))
                  /\ IF ShortCircuits(r)
                     THEN /\ response' = [status |-> "error", error |-> r.error, step_id |-> step.step_id,
                                          variables |-> r.vars, steps |-> <<>>]
                          /\ Cleanup("step_error")
                          /\ exec_pc' = "done"
                          /\ position' = position
                     ELSE /\ response' = response
                          /\ UNCHANGED <<cleanups, keys_up>>
                          /\ exec_pc' = "running"
                          /\ position' = position + 1
    /\ UNCHANGED <<workflow, initial_variables, stale>>

\* the for loop is over: _cleanup_resources(); return the success dict
ExecutorFinish ==
    /\ exec_pc = "running"
    /\ position > Len(workflow)
    /\ response' = [status |-> "success", error |-> "", step_id |-> NoStepId,
                    variables |-> variables, steps |-> results]
    /\ Cleanup("success")
    /\ exec_pc' = "done"
    /\ UNCHANGED <<workflow, initial_variables, variables, results, position, executed, before_step, stale>>

\* the caller has the response: the locals of execute are gone, self.variables
\* stays on the shared executor until the next call replaces it
ExecutorReturn ==
    /\ exec_pc = "done"
    /\ exec_pc' = "idle"
    /\ workflow' = <<>>
    /\ initial_variables' = EmptyDict
    /\ results' = <<>>
    /\ position' = 1
    /\ response' = NoResponse
    /\ executed' = <<>>
    /\ before_step' = EmptyDict
    /\ stale' = FALSE
    /\ cleanups' = <<>>
    /\ keys_up' = <<>>
    /\ UNCHANGED variables

(***************************************************************************)
(* visual_executor.py: calls of _render_template                           *)
(***************************************************************************)

Rendering(pc, template, vs, result) == [pc |-> pc, template |-> template, variables |-> vs, result |-> result]

RenderInit == render = Rendering("idle", <<>>, EmptyDict, <<>>)

\* a _render_template call is about to be made
RenderInputs == render \in { Rendering("called", t, vs, <<>>) : t \in Templates(MaxPieces), vs \in RenderVariables }

\* _render_template
RenderCall ==
    /\ render.pc = "called"
    /\ render' = [render EXCEPT !.pc = "returned", !.result = RenderTemplate(render.template, render.variables)]

(***************************************************************************)
(* main.py, visual_workflows.py: the orchestration server                  *)
(***************************************************************************)

\* os.getenv("MIDDLEWARE_TOKEN", "hackathon_demo_token")
MIDDLEWARE_TOKEN == "hackathon_demo_token"

\* An Authorization header, as the words str.split() finds in it; <<>> is a
\* header that is missing or empty.
AuthorizationHeaders ==
    { <<>>,
      <<MIDDLEWARE_TOKEN>>,
      <<"Basic", MIDDLEWARE_TOKEN>>,
      <<"Bearer", "wrong_token">>,
      <<"Bearer", MIDDLEWARE_TOKEN, "x">>,
      <<"Bearer", MIDDLEWARE_TOKEN>>,
      <<"bearer", MIDDLEWARE_TOKEN>> }

\* str.lower() on the schemes of the model
Lower(word) ==
    CASE word \in {"Bearer", "bearer"} -> "bearer"
      [] word = "Basic" -> "basic"
      [] OTHER -> word

\* an HTTPException, or the 200 of a handler that returns
Status(code, detail) == [code |-> code, detail |-> detail]

Passed == Status(200, "")

VerifyTokenMutant(authorization) ==
    IF authorization = <<>> THEN Status(401, "Missing authorization header")
    ELSE Passed

\* verify_token
VerifyToken(authorization) ==
    IF authorization = <<>> THEN Status(401, "Missing authorization header")
    ELSE IF Len(authorization) # 2 THEN Status(401, "Invalid authorization header format")
    ELSE IF Lower(authorization[1]) # "bearer" THEN Status(401, "Invalid authentication scheme")
    ELSE IF authorization[2] # MIDDLEWARE_TOKEN THEN Status(401, "Invalid token")
    ELSE Passed

\* A visual workflow, as the fields the server looks at.
VisualWorkflow(id, steps) == [workflow_id |-> id, steps |-> steps]

NoWorkflow == VisualWorkflow("<none>", <<>>)

WorkflowIds == {"wf_a", "wf_b"}

\* the step lists of the visual workflows clients save
SavedSteps ==
    { <<>>,
      << WithId(Step("", "record_audio", TRUE, Missing, Missing), 1),
         WithId(Step("", "lookup_db", FALSE, Missing, "db_data"), 2),
         WithId(Step("", "transcribe_audio", TRUE, Missing, "text"), 3) >>,
      << WithId(Step("", "lookup_excel", TRUE, "patient_id", "data"), 1),
         WithId(Step("", "send_email", TRUE, Missing, Missing), 2) >> }

\* the 'initial_variables' the clients of the execute endpoint send (the
\* agent sends none, or its transcription)
SuppliedVariables == { EmptyDict, [x \in {"transcription"} |-> Str(<<"h", "i">>)] }

VisualWorkflows == { VisualWorkflow(id, steps) : id \in WorkflowIds, steps \in SavedSteps }

\* The body of a response, as the fields clients read.
NoBody ==
    [status |-> "", workflow |-> NoWorkflow, workflows |-> <<>>, result |-> NoResponse,
     triggered |-> [status |-> "", workflow_id |-> "", insertions |-> <<>>, error_message |-> ""],
     session_id |-> "", field_name |-> "", coordinates |-> <<>>, pid |-> 0]

\* An Optional[str]: None, or the characters of a string.
Null == [null |-> TRUE, chars |-> <<>>]
Text(chars) == [null |-> FALSE, chars |-> chars]

\* Context: selected_text and user_id
Context(selected_text, user_id) == [selected_text |-> selected_text, user_id |-> user_id]

\* no context: the request is no trigger
NoContext == Context(Null, Null)

\* the exchange of a request (its endpoint, Authorization header, whether it
\* passes FastAPI's validation of body and parameters) with its response;
\* path is the {workflow_id} or {session_id} of the URL once a handler has
\* looked at it, initial_variables the 'initial_variables' of the JSON body
Exchange(endpoint, authorization, wellformed, status, body) ==
    [endpoint |-> endpoint, authorization |-> authorization, wellformed |-> wellformed,
     path |-> "", initial_variables |-> EmptyDict, context |-> NoContext, agent_events |-> <<>>,
     hotkey |-> <<>>, connector_requests |-> <<>>, connector_paths |-> {},
     code |-> status.code, detail |-> status.detail, body |-> body]

\* the exchange of a request for the path parameter id
At(id, exchange) == [exchange EXCEPT !.path = id]

NoExchange == Exchange("", <<>>, TRUE, Status(0, ""), NoBody)

\* FastAPI answers a request whose body or parameters do not validate before
\* it calls the handler
Unprocessable == Status(422, "validation error")

\* the event loop is free to run a handler
Ready == http = NoExchange /\ exec_pc = "idle"

ServerInit ==
    /\ store = <<>>
    /\ picker_sessions = [x \in {} |-> 0]
    /\ current_session_id = "None"
    /\ agent_process = 0
    /\ alive = {}
    /\ starting = <<>>
    /\ audit = <<>>
    /\ http = NoExchange

\* the state of the server other than the store and the exchange
BesidesStore == <<picker_sessions, current_session_id, agent_process, alive, starting, audit>>

\* FastAPI validates body and parameters, then the handler calls verify_token
Refused(authorization, wellformed) == ~wellformed \/ VerifyToken(authorization).code # 200

\* the exchange of a request that does not get past validation and verify_token
Refusal(endpoint, authorization, wellformed) ==
    Exchange(endpoint, authorization, wellformed,
             IF ~wellformed THEN Unprocessable ELSE VerifyToken(authorization), NoBody)

\* the exchange of a request the handler answers
Reply(endpoint, authorization, status, body) == Exchange(endpoint, authorization, TRUE, status, body)

\* root: the dashboard page, or the fallback dict
HttpRoot(authorization) ==
    /\ Ready
    /\ http' = Exchange("GET /", authorization, TRUE, Passed, NoBody)
    /\ UNCHANGED <<store, BesidesStore>>

\* excel_dashboard
HttpExcelDashboard(authorization, exists) ==
    /\ Ready
    /\ http' = Exchange("GET /excel", authorization, TRUE,
                        IF exists THEN Passed ELSE Status(404, "Excel dashboard not found"), NoBody)
    /\ UNCHANGED <<store, BesidesStore>>

\* health_check
HttpHealth(authorization) ==
    /\ Ready
    /\ http' = Exchange("GET /api/health", authorization, TRUE, Passed, [NoBody EXCEPT !.status = "healthy"])
    /\ UNCHANGED <<store, BesidesStore>>

\* list_visual_workflows
HttpListVisualWorkflows(authorization) ==
    /\ Ready
    /\ http' = IF Refused(authorization, TRUE)
               THEN Refusal("GET /api/visual-workflows", authorization, TRUE)
               ELSE Reply("GET /api/visual-workflows", authorization, Passed, [NoBody EXCEPT !.workflows = store])
    /\ UNCHANGED <<store, BesidesStore>>

\* any(wf.workflow_id == workflow_id for wf in workflows)
Stored(workflows, id) == \E i \in 1..Len(workflows) : workflows[i].workflow_id = id

\* the index of the first stored workflow with the id
FirstWith(workflows, id) ==
    CHOOSE i \in 1..Len(workflows) :
        /\ workflows[i].workflow_id = id
        /\ \A j \in 1..(i - 1) : workflows[j].workflow_id # id

CreateReplacesMutant(workflows, wf) ==
    IF Stored(workflows, wf.workflow_id)
    THEN [ok |-> FALSE, workflows |-> [workflows EXCEPT ![FirstWith(workflows, wf.workflow_id)] = wf]]
    ELSE [ok |-> TRUE, workflows |-> Append(workflows, wf)]

\* VisualWorkflowStorage.create: ok is false when it raises ValueError
Create(workflows, wf) ==
    IF Stored(workflows, wf.workflow_id)
    THEN [ok |-> FALSE, workflows |-> workflows]
    ELSE [ok |-> TRUE, workflows |-> Append(workflows, wf)]

\* VisualWorkflowStorage.update: ok is false when it raises ValueError
Update(workflows, id, wf) ==
    IF Stored(workflows, id)
    THEN [ok |-> TRUE, workflows |-> [workflows EXCEPT ![FirstWith(workflows, id)] = wf]]
    ELSE [ok |-> FALSE, workflows |-> workflows]

\* [wf for wf in workflows if wf.workflow_id != workflow_id]
RECURSIVE Without(_, _)
Without(workflows, id) ==
    IF workflows = <<>> THEN <<>>
    ELSE IF Head(workflows).workflow_id = id THEN Without(Tail(workflows), id)
    ELSE <<Head(workflows)>> \o Without(Tail(workflows), id)

\* VisualWorkflowStorage.get, NoWorkflow for None
Get(workflows, id) ==
    IF Stored(workflows, id) THEN workflows[FirstWith(workflows, id)] ELSE NoWorkflow

\* create_visual_workflow
HttpCreateVisualWorkflow(authorization, wellformed, bodies) ==
    /\ Ready
    /\ LET endpoint == "POST /api/visual-workflows" IN
       IF Refused(authorization, wellformed)
       THEN /\ http' = Refusal(endpoint, authorization, wellformed)
            /\ UNCHANGED store
       ELSE \E wf \in bodies :
               LET created == Create(store, wf) IN
               /\ Len(created.workflows) <= MaxStored
               /\ store' = created.workflows
               /\ http' = IF created.ok
                          THEN Reply(endpoint, authorization, Passed,
                                     [NoBody EXCEPT !.status = "created", !.workflow = wf])
                          ELSE \* the detail names the workflow of the body
                               Reply(endpoint, authorization, Status(400, "already exists"),
                                     [NoBody EXCEPT !.workflow = wf])
    /\ UNCHANGED BesidesStore

\* get_visual_workflow
HttpGetVisualWorkflow(authorization, ids) ==
    /\ Ready
    /\ LET endpoint == "GET /api/visual-workflows/{workflow_id}" IN
       IF Refused(authorization, TRUE)
       THEN http' = Refusal(endpoint, authorization, TRUE)
       ELSE \E id \in ids :
               http' = IF Stored(store, id)
                       THEN At(id, Reply(endpoint, authorization, Passed, [NoBody EXCEPT !.workflow = Get(store, id)]))
                       ELSE At(id, Reply(endpoint, authorization, Status(404, "not found"), NoBody))
    /\ UNCHANGED <<store, BesidesStore>>

\* update_visual_workflow
HttpUpdateVisualWorkflow(authorization, wellformed, ids, bodies) ==
    /\ Ready
    /\ LET endpoint == "PUT /api/visual-workflows/{workflow_id}" IN
       IF Refused(authorization, wellformed)
       THEN /\ http' = Refusal(endpoint, authorization, wellformed)
            /\ UNCHANGED store
       ELSE \E id \in ids, wf \in bodies :
               LET updated == Update(store, id, wf) IN
               /\ store' = updated.workflows
               /\ http' = IF updated.ok
                          THEN At(id, Reply(endpoint, authorization, Passed,
                                            [NoBody EXCEPT !.status = "updated", !.workflow = wf]))
                          ELSE At(id, Reply(endpoint, authorization, Status(404, "not found"), NoBody))
    /\ UNCHANGED BesidesStore

\* delete_visual_workflow
HttpDeleteVisualWorkflow(authorization, ids) ==
    /\ Ready
    /\ LET endpoint == "DELETE /api/visual-workflows/{workflow_id}" IN
       IF Refused(authorization, TRUE)
       THEN /\ http' = Refusal(endpoint, authorization, TRUE)
            /\ UNCHANGED store
       ELSE \E id \in ids :
               /\ store' = Without(store, id)
               /\ http' = At(id, Reply(endpoint, authorization, Passed, [NoBody EXCEPT !.status = "deleted"]))
    /\ UNCHANGED BesidesStore

\* the exchange of a handler that is inside workflow_executor.execute
Executing(endpoint, authorization) == Exchange(endpoint, authorization, TRUE, Status(0, ""), NoBody)

\* execute_visual_workflow up to the call of workflow_executor.execute
HttpExecuteVisualWorkflow(authorization, ids, supplied) ==
    /\ Ready
    /\ LET endpoint == "POST /api/visual-workflows/{workflow_id}/execute" IN
       IF Refused(authorization, TRUE)
       THEN /\ http' = Refusal(endpoint, authorization, TRUE)
            /\ UNCHANGED execVars
       ELSE \E id \in ids, sent \in supplied :
               IF ~Stored(store, id)
               THEN /\ http' = [At(id, Reply(endpoint, authorization, Status(404, "not found"), NoBody))
                                  EXCEPT !.initial_variables = sent]
                    /\ UNCHANGED execVars
               ELSE \* workflow_executor.execute(workflow.model_dump(mode='json')): the
                    \* handler has no body parameter, what the client sent is dropped
                    /\ http' = [At(id, Executing(endpoint, authorization)) EXCEPT !.initial_variables = sent]
                    /\ BeginExecute(Get(store, id).steps, EmptyDict)
    /\ UNCHANGED <<store, BesidesStore>>

\* execute_visual_workflow returns what workflow_executor.execute returned
HttpExecuteReturn ==
    /\ http.code = 0
    /\ http.endpoint = "POST /api/visual-workflows/{workflow_id}/execute"
    /\ http' = [http EXCEPT !.code = 200, !.body = [NoBody EXCEPT !.status = response.status, !.result = response]]
    /\ ExecutorReturn
    /\ UNCHANGED <<store, BesidesStore>>

(***************************************************************************)
(* main.py: picker coordination                                            *)
(***************************************************************************)

\* JSON null, and a key the body does not have
None == "None"

SessionIds == {"s1", "s2"}
FieldNames == {"patient_coords"}
BothFieldNames == {"patient_coords", "output_coords"}
Coordinates == {"0", "120"}

\* "coordinates": None
NoCoordinates == <<>>

\* picker_sessions[session_id]
Session(field_name, coordinates) == [field_name |-> field_name, coordinates |-> coordinates]

BesidesPicker == <<store, agent_process, alive, starting, audit>>

\* picker_sessions after picker_sessions[session_id] = {"field_name": field_name, "coordinates": None}
Activated(sessions, session_id, field_name) == Put(sessions, session_id, Session(field_name, NoCoordinates))

\* activate_picker
HttpActivatePicker(authorization, wellformed, sessions, fields) ==
    /\ Ready
    /\ LET endpoint == "POST /api/picker/activate" IN
       IF Refused(authorization, wellformed)
       THEN /\ http' = Refusal(endpoint, authorization, wellformed)
            /\ UNCHANGED <<picker_sessions, current_session_id>>
       ELSE \E session_id \in sessions \cup {None}, field_name \in fields \cup {None} :
               IF session_id = None \/ field_name = None
               THEN /\ http' = Reply(endpoint, authorization, Status(400, "Missing session_id or field_name"), NoBody)
                    /\ UNCHANGED <<picker_sessions, current_session_id>>
               ELSE /\ http' = Reply(endpoint, authorization, Passed,
                                     [NoBody EXCEPT !.status = "picker_activated", !.session_id = session_id,
                                                    !.field_name = field_name])
                    /\ picker_sessions' = Activated(picker_sessions, session_id, field_name)
                    /\ current_session_id' = session_id
    /\ UNCHANGED BesidesPicker

ReportedMutant(sessions, current, x, y) ==
    [s \in DOMAIN sessions |-> [sessions[s] EXCEPT !.coordinates = <<x, y>>]]

\* picker_sessions after a report of (x, y): bound to the current session,
\* if there is one
Reported(sessions, current, x, y) ==
    IF current # None /\ current \in DOMAIN sessions
    THEN [sessions EXCEPT ![current].coordinates = <<x, y>>]
    ELSE sessions

HttpReceiveCoordinatesMutant(authorization, wellformed, coordinates) ==
    /\ Ready
    /\ LET endpoint == "POST /api/picker/coordinates" IN
       IF Refused(authorization, wellformed)
       THEN /\ http' = Refusal(endpoint, authorization, wellformed)
            /\ UNCHANGED picker_sessions
       ELSE \E x \in coordinates \cup {None}, y \in coordinates \cup {None} :
               IF x = None \/ y = None
               THEN /\ http' = Reply(endpoint, authorization, Status(400, "Missing x or y coordinates"), NoBody)
                    /\ UNCHANGED picker_sessions
               ELSE /\ http' = Reply(endpoint, authorization, Passed,
                                     IF current_session_id # None /\ current_session_id \in DOMAIN picker_sessions
                                     THEN [NoBody EXCEPT !.status = "coordinates_received",
                                                         !.session_id = current_session_id,
                                                         !.field_name = picker_sessions[current_session_id].field_name,
                                                         !.coordinates = <<x, y>>]
                                     ELSE [NoBody EXCEPT !.status = "coordinates_received", !.coordinates = <<x, y>>])
                    /\ picker_sessions' = [s \in DOMAIN picker_sessions |->
                                            [Reported(picker_sessions, current_session_id, x, y)[s]
                                                EXCEPT !.field_name = "picked"]]
    /\ UNCHANGED <<current_session_id, BesidesPicker>>

\* receive_coordinates
HttpReceiveCoordinates(authorization, wellformed, coordinates) ==
    /\ Ready
    /\ LET endpoint == "POST /api/picker/coordinates" IN
       IF Refused(authorization, wellformed)
       THEN /\ http' = Refusal(endpoint, authorization, wellformed)
            /\ UNCHANGED picker_sessions
       ELSE \E x \in coordinates \cup {None}, y \in coordinates \cup {None} :
               IF x = None \/ y = None
               THEN /\ http' = Reply(endpoint, authorization, Status(400, "Missing x or y coordinates"), NoBody)
                    /\ UNCHANGED picker_sessions
               ELSE /\ http' = Reply(endpoint, authorization, Passed,
                                     IF current_session_id # None /\ current_session_id \in DOMAIN picker_sessions
                                     THEN [NoBody EXCEPT !.status = "coordinates_received",
                                                         !.session_id = current_session_id,
                                                         !.field_name = picker_sessions[current_session_id].field_name,
                                                         !.coordinates = <<x, y>>]
                                     ELSE [NoBody EXCEPT !.status = "coordinates_received", !.coordinates = <<x, y>>])
                    /\ picker_sessions' = Reported(picker_sessions, current_session_id, x, y)
    /\ UNCHANGED <<current_session_id, BesidesPicker>>

\* get_picker_status
HttpPickerStatus(authorization, sessions) ==
    /\ Ready
    /\ LET endpoint == "GET /api/picker/status/{session_id}" IN
       IF Refused(authorization, TRUE)
       THEN http' = Refusal(endpoint, authorization, TRUE)
       ELSE \E session_id \in sessions :
               http' = IF session_id \notin DOMAIN picker_sessions
                       THEN At(session_id, Reply(endpoint, authorization, Status(404, "not found"), NoBody))
                       ELSE At(session_id, Reply(endpoint, authorization, Passed,
                                  [NoBody EXCEPT !.status =
                                      IF picker_sessions[session_id].coordinates # NoCoordinates
                                      THEN "completed" ELSE "waiting",
                                                 !.field_name = picker_sessions[session_id].field_name,
                                                 !.coordinates = picker_sessions[session_id].coordinates]))
    /\ UNCHANGED <<picker_sessions, current_session_id, BesidesPicker>>

(***************************************************************************)
(* main.py: agent control                                                  *)
(***************************************************************************)

BesidesAgent == <<store, picker_sessions, current_session_id, audit>>

AgentRunningMutant == agent_process # 0

\* agent_process is not None and agent_process.poll() is None
AgentRunning == agent_process # 0 /\ agent_process \in alive

\* the pids the server holds a handle of
Held == alive \cup { starting[i] : i \in 1..Len(starting) } \cup ({agent_process} \ {0})

\* the pid of the next process: one no process the server knows has
NewPid == CHOOSE pid \in 1..(Cardinality(Held) + 1) : pid \notin Held

\* start_agent up to await asyncio.sleep(1.0); the call that spawns a process
\* is suspended there (most: how many suspended calls are followed at once)
HttpStartAgent(authorization, most) ==
    /\ Ready
    /\ LET endpoint == "POST /api/agent/start" IN
       IF Refused(authorization, TRUE)
       THEN /\ http' = Refusal(endpoint, authorization, TRUE)
            /\ UNCHANGED <<agent_process, alive, starting>>
       ELSE IF AgentRunning
       THEN /\ http' = Reply(endpoint, authorization, Passed,
                             [NoBody EXCEPT !.status = "already_running", !.pid = agent_process])
            /\ UNCHANGED <<agent_process, alive, starting>>
       ELSE \/ \* the agent script is not there
               /\ http' = Reply(endpoint, authorization, Status(404, "Agent script not found"), NoBody)
               /\ agent_process' = 0
               /\ UNCHANGED <<alive, starting>>
            \/ \* Popen raises
               /\ http' = Reply(endpoint, authorization, Status(500, "Failed to start agent"), NoBody)
               /\ agent_process' = 0
               /\ UNCHANGED <<alive, starting>>
            \/ \* Popen returns a process
               /\ Len(starting) < most
               /\ agent_process' = NewPid
               /\ alive' = alive \cup {NewPid}
               /\ starting' = Append(starting, NewPid)
               /\ UNCHANGED http
    /\ UNCHANGED BesidesAgent

\* start_agent after the sleep, the call that has slept longest first: it
\* looks at the global agent_process again
ResumeStartAgent ==
    /\ Ready
    /\ starting # <<>>
    /\ starting' = Tail(starting)
    /\ LET endpoint == "POST /api/agent/start" IN
       IF AgentRunning
       THEN /\ http' = Reply(endpoint, <<"Bearer", MIDDLEWARE_TOKEN>>, Passed,
                             [NoBody EXCEPT !.status = "started", !.pid = agent_process])
            /\ UNCHANGED agent_process
       ELSE \* poll() on None, or returncode read on the handle just set to None
            /\ http' = Reply(endpoint, <<"Bearer", MIDDLEWARE_TOKEN>>, Status(500, "Failed to start agent"), NoBody)
            /\ agent_process' = 0
    /\ UNCHANGED <<alive, BesidesAgent>>

\* an agent process exits on its own
AgentExits(p) ==
    /\ p \in alive
    /\ alive' = alive \ {p}
    /\ UNCHANGED <<agent_process, starting, http, BesidesAgent>>

\* what a child does when it is sent the termination signal
Reactions == {"exits", "ignores"}

StoppingMutant(reaction) ==
    IF reaction = "exits" THEN <<"terminate", "exited">>
    ELSE <<"terminate", "wait_timeout">>

\* terminate(), wait(timeout=5) and, when the wait times out, kill() and
\* wait(): what is sent to the child and what is seen of it, in order
Stopping(reaction) ==
    IF reaction = "exits" THEN <<"terminate", "exited">>
    ELSE <<"terminate", "wait_timeout", "kill", "exited">>

\* the live processes after the events on the process pid
AfterEvents(events, pid) ==
    IF events # <<>> /\ events[Len(events)] = "exited" THEN alive \ {pid} ELSE alive

\* stop_agent
HttpStopAgent(authorization) ==
    /\ Ready
    /\ LET endpoint == "POST /api/agent/stop" IN
       IF Refused(authorization, TRUE)
       THEN /\ http' = Refusal(endpoint, authorization, TRUE)
            /\ UNCHANGED <<agent_process, alive>>
       ELSE IF ~AgentRunning
       THEN /\ http' = Reply(endpoint, authorization, Passed, [NoBody EXCEPT !.status = "not_running"])
            /\ agent_process' = 0
            /\ UNCHANGED alive
       ELSE \E reaction \in Reactions :
               /\ http' = [Reply(endpoint, authorization, Passed, [NoBody EXCEPT !.status = "stopped"])
                              EXCEPT !.agent_events = Stopping(reaction)]
               /\ agent_process' = 0
               /\ alive' = AfterEvents(Stopping(reaction), agent_process)
    /\ UNCHANGED <<starting, BesidesAgent>>

\* shutdown_event: the server answers no request after it
Shutdown ==
    /\ Ready
    /\ IF AgentRunning
       THEN \E reaction \in Reactions :
               /\ http' = [Exchange("shutdown", <<>>, TRUE, Status(0, ""), NoBody)
                              EXCEPT !.agent_events = Stopping(reaction)]
               /\ alive' = AfterEvents(Stopping(reaction), agent_process)
       ELSE /\ http' = Exchange("shutdown", <<>>, TRUE, Status(0, ""), NoBody)
            /\ UNCHANGED alive
    /\ UNCHANGED <<agent_process, starting, BesidesAgent>>

\* get_agent_status
HttpAgentStatus(authorization) ==
    /\ Ready
    /\ LET endpoint == "GET /api/agent/status" IN
       IF Refused(authorization, TRUE)
       THEN /\ http' = Refusal(endpoint, authorization, TRUE)
            /\ UNCHANGED agent_process
       ELSE /\ http' = Reply(endpoint, authorization, Passed,
                             [NoBody EXCEPT !.status = IF AgentRunning THEN "running" ELSE "not_running"])
            /\ agent_process' = IF AgentRunning THEN agent_process ELSE 0
    /\ UNCHANGED <<alive, starting, BesidesAgent>>

\* get_agent_logs
HttpAgentLogs(authorization) ==
    /\ Ready
    /\ http' = LET endpoint == "GET /api/agent/logs" IN
               IF Refused(authorization, TRUE) THEN Refusal(endpoint, authorization, TRUE)
               ELSE Reply(endpoint, authorization, Passed,
                          [NoBody EXCEPT !.status = IF AgentRunning THEN "running" ELSE "not_running"])
    /\ UNCHANGED <<agent_process, alive, starting, BesidesAgent>>

(***************************************************************************)
(* main.py: OCR preview and Excel helpers                                  *)
(***************************************************************************)

\* preview_ocr: the HTTPException(400) for a missing x or y is raised inside
\* the try whose handler turns every Exception into a 500
HttpPreviewOcr(authorization, wellformed) ==
    /\ Ready
    /\ LET endpoint == "POST /api/picker/preview-ocr" IN
       IF Refused(authorization, wellformed)
       THEN http' = Refusal(endpoint, authorization, wellformed)
       ELSE \E x \in Coordinates \cup {None}, works \in BOOLEAN :
               http' = IF x = None \/ ~works
                       THEN Reply(endpoint, authorization, Status(500, "OCR preview failed"), NoBody)
                       ELSE Reply(endpoint, authorization, Passed, [NoBody EXCEPT !.status = "success"])
    /\ UNCHANGED <<store, BesidesStore>>

\* upload_excel
HttpUploadExcel(authorization, wellformed) ==
    /\ Ready
    /\ LET endpoint == "POST /api/excel/upload" IN
       IF Refused(authorization, wellformed)
       THEN http' = Refusal(endpoint, authorization, wellformed)
       ELSE \E works \in BOOLEAN :
               http' = IF ~works
                       THEN Reply(endpoint, authorization, Status(500, "Upload failed"), NoBody)
                       ELSE Reply(endpoint, authorization, Passed, [NoBody EXCEPT !.status = "success"])
    /\ UNCHANGED <<store, BesidesStore>>

\* get_excel_columns
HttpExcelColumns(authorization, wellformed) ==
    /\ Ready
    /\ LET endpoint == "POST /api/excel/columns" IN
       IF Refused(authorization, wellformed)
       THEN http' = Refusal(endpoint, authorization, wellformed)
       ELSE \E file \in {None, "absent", "unreadable", "present"} :
               http' = CASE file = None -> Reply(endpoint, authorization, Status(400, "Missing file_path"), NoBody)
                         [] file = "absent" -> Reply(endpoint, authorization, Status(404, "File not found"), NoBody)
                         [] file = "unreadable" -> Reply(endpoint, authorization, Status(500, "Error reading Excel"), NoBody)
                         [] OTHER -> Reply(endpoint, authorization, Passed, [NoBody EXCEPT !.status = "success"])
    /\ UNCHANGED <<store, BesidesStore>>

(***************************************************************************)
(* workflow_engine.py, validators.py, transformers.py: declarative         *)
(* workflows and POST /api/trigger                                         *)
(***************************************************************************)


\* value or ""
OrEmpty(value) == IF value.null THEN <<>> ELSE value.chars

\* A hotkey is the sequence of its tokens: keys, "+" and " ".
UpperToken(token) ==
    CASE token = "ctrl" -> "CTRL" [] token = "alt" -> "ALT" [] token = "v" -> "V"
      [] token = "u" -> "U" [] OTHER -> token

RECURSIVE NormalizeHotkey(_)
\* hotkey.upper().replace(" ", "")
NormalizeHotkey(hotkey) ==
    IF hotkey = <<>> THEN <<>>
    ELSE IF Head(hotkey) = " " THEN NormalizeHotkey(Tail(hotkey))
    ELSE <<UpperToken(Head(hotkey))>> \o NormalizeHotkey(Tail(hotkey))

Hotkey(key) == <<"CTRL", "+", "ALT", "+", key>>

\* str.lower() on the field names of the model
LowerField(field) ==
    CASE field = "DiagnosisText" -> "diagnosistext"
      [] field = "DiagnosisCode" -> "diagnosiscode"
      [] field = "SocialSecurityNumber" -> "socialsecuritynumber"
      [] field = "AnyField" -> "anyfield"
      [] OTHER -> field

\* ValidationConfig, and validation: None
Validation(required_fields, icd10_format) ==
    [none |-> FALSE, required_fields |-> required_fields, icd10_format |-> icd10_format]
NoValidation == [none |-> TRUE, required_fields |-> <<>>, icd10_format |-> FALSE]

\* OutputConfig: the content template is {{ <content> }}, the label template
\* {{ <label> }} when there is one
OutputConfig(type, target_field, content, mode, navigation, label, click_before, insert_method) ==
    [type |-> type, target_field |-> target_field, content |-> content, mode |-> mode,
     navigation |-> navigation, label |-> label, click_before |-> click_before,
     insert_method |-> insert_method]

\* an OutputConfig that names its target field and its content and takes the
\* defaults of the class
Output(target_field, name) ==
    OutputConfig("text", target_field, name, "replace", None, None, None, "type")

\* validation.get('max_length') of a workflow without one
NoMaxLength == -1

\* WorkflowConfig
WorkflowConfig(id, hotkey, enabled, min_length, validation, allowed_fields, output) ==
    [workflow_id |-> id, hotkey |-> hotkey, enabled |-> enabled, connector |-> "voice_ai",
     min_length |-> min_length, max_length |-> NoMaxLength, validation |-> validation,
     allowed_fields |-> allowed_fields, output |-> output]

\* a workflow whose input.validation has a max_length
Bounded(wf, max_length) == [wf EXCEPT !.max_length = max_length]

\* response.mappings of the workflows of the model: output name -> JSONPath
Mappings == [summary |-> "$.summary", icd10_code |-> "$.icd10.code"]

\* the workflows load_all_configs hands to the engine
ConfiguredWorkflows ==
    << WorkflowConfig("voice_summary", Hotkey("V"), TRUE, 3, Validation(<<"summary">>, TRUE),
                      <<"DiagnosisText", "DiagnosisCode">>,
                      <<Output("DiagnosisText", "summary"), Output("DiagnosisCode", "icd10_code")>>),
       WorkflowConfig("leak_validated", Hotkey("L"), TRUE, 0, Validation(<<>>, FALSE),
                      <<"DiagnosisText">>,
                      <<Output("DiagnosisText", "summary"), Output("SocialSecurityNumber", "summary")>>),
       WorkflowConfig("leak_unvalidated", Hotkey("U"), TRUE, 0, NoValidation,
                      <<"DiagnosisText">>,
                      <<Output("SocialSecurityNumber", "summary")>>),
       WorkflowConfig("leak_required", Hotkey("R"), TRUE, 0, Validation(<<"severity">>, FALSE),
                      <<"DiagnosisText">>,
                      <<Output("SocialSecurityNumber", "summary")>>),
       WorkflowConfig("open", Hotkey("O"), TRUE, 0, NoValidation,
                      <<>>,
                      <<Output("AnyField", "summary")>>),
       WorkflowConfig("lower_case", Hotkey("C"), TRUE, 0, Validation(<<>>, FALSE),
                      <<"DiagnosisText">>,
                      <<Output("diagnosistext", "summary")>>),
       WorkflowConfig("disabled", Hotkey("X"), FALSE, 0, NoValidation,
                      <<>>,
                      <<Output("AnyField", "summary")>>),
       Bounded(WorkflowConfig("bounded", Hotkey("B"), TRUE, 0, NoValidation,
                              <<>>,
                              <<Output("AnyField", "summary")>>), 2),
       WorkflowConfig("pasting", Hotkey("P"), TRUE, 0, Validation(<<"summary">>, FALSE),
                      <<>>,
                      <<OutputConfig("icd10", "DiagnosisCode", "icd10_code", "append", "tab_3",
                                     "summary", "100,200", "paste"),
                        OutputConfig("text", "DiagnosisText", "summary", "prepend", None,
                                     None, None, "type"),
                        Output("AnyField", "summary")>>) >>

\* {wf.hotkey: wf for wf in workflows if wf.enabled}, as the items of the
\* dict in insertion order (a hotkey met again keeps its place and takes the
\* later workflow)
RECURSIVE EngineWorkflows(_)
EngineWorkflows(configured) ==
    IF configured = <<>> THEN <<>>
    ELSE LET before == EngineWorkflows(SubSeq(configured, 1, Len(configured) - 1))
             wf == configured[Len(configured)]
         IN IF ~wf.enabled THEN before
            ELSE IF \E i \in 1..Len(before) : before[i].hotkey = wf.hotkey
            THEN [i \in 1..Len(before) |-> IF before[i].hotkey = wf.hotkey THEN wf ELSE before[i]]
            ELSE Append(before, wf)

NoWorkflowConfig == WorkflowConfig("unknown", <<>>, FALSE, 0, NoValidation, <<>>, <<>>)

MatchHotkeyMutant(workflows, hotkey) ==
    LET hits == { i \in 1..Len(workflows) : workflows[i].hotkey = hotkey }
    IN IF hits = {} THEN NoWorkflowConfig
       ELSE workflows[CHOOSE i \in hits : \A j \in hits : i <= j]

\* match_hotkey, NoWorkflowConfig for None
MatchHotkey(workflows, hotkey) ==
    LET hits == { i \in 1..Len(workflows) : NormalizeHotkey(workflows[i].hotkey) = NormalizeHotkey(hotkey) }
    IN IF hits = {} THEN NoWorkflowConfig
       ELSE workflows[CHOOSE i \in hits : \A j \in hits : i <= j]

\* the hotkeys agents send
TriggerHotkeys ==
    { Hotkey("V"), <<"ctrl", " ", "+", " ", "alt", "+", "v">>, Hotkey("L"), Hotkey("U"),
      <<"ctrl", "+", "alt", "+", "u">>, Hotkey("R"), Hotkey("O"), Hotkey("C"), Hotkey("X"), Hotkey("Z") }


Contexts ==
    { Context(Null, Null),
      Context(Text(<<"f", "l", "u">>), Text(<<"d", "r">>)) }

\* What the upstream service does for connector.execute: the JSON it returns
\* (the values found at the paths it has), or the ConnectorError raised, or
\* nothing because the registry does not know the connector.
Upstream(kind, code, data) == [kind |-> kind, code |-> code, data |-> data]

Json(summary, icd10_code) ==
    [p \in {"$.summary"} \cup (IF icd10_code = <<>> THEN {} ELSE {"$.icd10.code"}) |->
        IF p = "$.summary" THEN summary ELSE icd10_code]

Upstreams ==
    { Upstream("returns", "", Json(<<"o", "k">>, <<"j", "1", "8", ".", "9">>)),
      Upstream("returns", "", Json(<<"o", "k">>, <<"X", "Y", "Z">>)),
      Upstream("returns", "", Json(<<"o", "k">>, <<>>)),
      Upstream("raises", "SERVER_ERROR", Json(<<>>, <<>>)),
      Upstream("raises", "TIMEOUT", Json(<<>>, <<>>)),
      Upstream("not_registered", "", Json(<<>>, <<>>)) }

\* ResponseExtractor.extract: None for a path without a match
Extract(data, mappings) ==
    [name \in DOMAIN mappings |->
        IF mappings[name] \in DOMAIN data THEN Text(data[mappings[name]]) ELSE Null]

Letters == {"A", "B", "D", "I", "J", "X", "Y", "Z"}

\* ICD10Validator.PATTERN on code.upper().strip()
ValidIcd10(code) ==
    LET c == Upper(Strip(code)) IN
    /\ Len(c) >= 3
    /\ c[1] \in Letters
    /\ c[2] \in Digits
    /\ c[3] \in Digits
    /\ Len(c) > 3 =>
          /\ c[4] = "."
          /\ Len(c) \in 5..8
          /\ \A i \in 5..Len(c) : c[i] \in Digits \cup Letters

\* 'icd10' in key.lower() and 'code' in key.lower()
IsIcd10CodeKey(key) == key = "icd10_code"

\* FieldWhitelistValidator(allowed_fields).validate(field).valid
Whitelisted(allowed_fields, field) ==
    \E i \in 1..Len(allowed_fields) : LowerField(allowed_fields[i]) = LowerField(field)

\* _validate_response: the message of the ValueError it raises, "" when it returns
ValidateResponse(wf, extracted) ==
    IF wf.validation.none THEN ""
    ELSE IF \E i \in 1..Len(wf.validation.required_fields) :
               wf.validation.required_fields[i] \notin DOMAIN extracted
    THEN "Missing required fields"
    ELSE IF wf.validation.icd10_format
            /\ \E key \in DOMAIN extracted :
                  /\ IsIcd10CodeKey(key)
                  /\ OrEmpty(extracted[key]) # <<>>
                  /\ ~ValidIcd10(extracted[key].chars)
    THEN "Invalid ICD-10 format"
    ELSE IF wf.allowed_fields # <<>>
            /\ \E i \in 1..Len(wf.output) : ~Whitelisted(wf.allowed_fields, wf.output[i].target_field)
    THEN "Field is not in whitelist"
    ELSE ""

\* TemplateRenderer.render of {{ name }}: str(value), "" for an undefined name
Render(name, extracted) ==
    IF name \notin DOMAIN extracted THEN <<>>
    ELSE IF extracted[name].null THEN <<"N", "o", "n", "e">>
    ELSE extracted[name].chars

\* InsertionInstruction
InsertionInstruction(target_field, content, mode, type, navigation, label, click_before, insert_method) ==
    [target_field |-> target_field, content |-> content, mode |-> mode, type |-> type,
     navigation |-> navigation, label |-> label, click_before |-> click_before,
     insert_method |-> insert_method]

\* OutputBuilder.build_instructions: click_before and insert_method are not
\* handed to InsertionInstruction, which gives them its defaults
BuildInstructions(output, extracted) ==
    [i \in 1..Len(output) |->
        InsertionInstruction(output[i].target_field,
                             Render(output[i].content, extracted),
                             output[i].mode,
                             output[i].type,
                             output[i].navigation,
                             IF output[i].label # None
                             THEN Text(Render(output[i].label, extracted)) ELSE Null,
                             None,
                             "type")]

\* WorkflowResponse
WorkflowResponse(status, workflow_id, insertions, error_message) ==
    [status |-> status, workflow_id |-> workflow_id, insertions |-> insertions,
     error_message |-> error_message]

AuditEntryMutant(wf, context, status, error_code) ==
    [event |-> "workflow_execution", workflow_id |-> wf.workflow_id, connector |-> wf.connector,
     status |-> status, user_id |-> context.selected_text, error_code |-> error_code]

\* the dict log_workflow_execution writes
AuditEntry(wf, context, status, error_code) ==
    [event |-> "workflow_execution", workflow_id |-> wf.workflow_id, connector |-> wf.connector,
     status |-> status, user_id |-> context.user_id, error_code |-> error_code]

\* what execute returns and the entries it adds to the audit log
Executed(workflow_response, entries) ==
    [response |-> workflow_response, entries |-> entries, sent |-> <<>>, paths |-> {}]

\* the same, of a call that got as far as connector.execute: the input text
\* went upstream in the rendered request, and the paths that have a match in
\* the response came back
Sent(done, context, upstream) ==
    [done EXCEPT !.sent = <<OrEmpty(context.selected_text)>>,
                 !.paths = IF upstream.kind = "returns" THEN DOMAIN upstream.data ELSE {}]

ValidateInputMutant(wf, context) ==
    IF Len(OrEmpty(context.selected_text)) < wf.min_length THEN "Text too short"
    ELSE ""

\* validate_input: the message of the ValueError it raises, "" when it returns
ValidateInput(wf, context) ==
    IF Len(OrEmpty(context.selected_text)) < wf.min_length THEN "Text too short"
    ELSE IF wf.max_length # NoMaxLength /\ Len(OrEmpty(context.selected_text)) > wf.max_length
    THEN "Text too long"
    ELSE ""

\* the except Exception handler of execute
Failing(wf, context, message, logged) ==
    Executed(WorkflowResponse("error", wf.workflow_id, <<>>, message),
             Append(logged, AuditEntry(wf, context, "error", "EXECUTION_ERROR")))

\* WorkflowEngine.execute
EngineExecute(workflows, hotkey, context, upstream) ==
    LET wf == MatchHotkey(workflows, hotkey)
        extracted == Extract(upstream.data, Mappings)
    IN IF wf = NoWorkflowConfig
       THEN Executed(WorkflowResponse("error", "unknown", <<>>, "No workflow found for hotkey"), <<>>)
       ELSE IF ValidateInput(wf, context) # ""
       THEN Failing(wf, context, ValidateInput(wf, context), <<>>)
       ELSE IF upstream.kind = "not_registered"
       THEN Failing(wf, context, "Connector not found", <<>>)
       ELSE IF upstream.kind = "raises"
       THEN Sent(Failing(wf, context, "Connector error", <<AuditEntry(wf, context, "error", upstream.code)>>),
                 context, upstream)
       ELSE IF ValidateResponse(wf, extracted) # ""
       THEN Sent(Failing(wf, context, ValidateResponse(wf, extracted), <<>>), context, upstream)
       ELSE Sent(Executed(WorkflowResponse("success", wf.workflow_id,
                                           BuildInstructions(wf.output, extracted), ""),
                          <<AuditEntry(wf, context, "success", "None")>>),
                 context, upstream)

BesidesAudit == <<store, picker_sessions, current_session_id, agent_process, alive, starting>>

\* list_workflows
HttpListWorkflows(authorization) ==
    /\ Ready
    /\ http' = LET endpoint == "GET /api/workflows" IN
               IF Refused(authorization, TRUE) THEN Refusal(endpoint, authorization, TRUE)
               ELSE Reply(endpoint, authorization, Passed, [NoBody EXCEPT !.status = "listed"])
    /\ UNCHANGED <<audit, BesidesAudit>>

\* get_recent_audit_logs: AuditLogger has no get_recent_entries, the
\* AttributeError reaches general_exception_handler
HttpRecentAudit(authorization, wellformed) ==
    /\ Ready
    /\ http' = LET endpoint == "GET /api/audit/recent" IN
               IF Refused(authorization, wellformed) THEN Refusal(endpoint, authorization, wellformed)
               ELSE Reply(endpoint, authorization, Status(500, "Internal server error"), NoBody)
    /\ UNCHANGED <<audit, BesidesAudit>>

\* trigger_workflow
HttpTrigger(authorization, wellformed, hotkeys, upstreams) ==
    /\ Ready
    /\ LET endpoint == "POST /api/trigger" IN
       IF Refused(authorization, wellformed)
       THEN /\ http' = Refusal(endpoint, authorization, wellformed)
            /\ UNCHANGED audit
       ELSE \E hotkey \in hotkeys, context \in Contexts, upstream \in upstreams :
               LET done == EngineExecute(EngineWorkflows(ConfiguredWorkflows), hotkey, context, upstream) IN
               /\ Len(audit) + Len(done.entries) <= MaxAudit
               /\ audit' = audit \o done.entries
               /\ http' = [Reply(endpoint, authorization, Passed,
                                 [NoBody EXCEPT !.status = done.response.status, !.triggered = done.response])
                            EXCEPT !.context = context, !.hotkey = hotkey,
                                   !.connector_requests = done.sent,
                                   !.connector_paths = done.paths]
    /\ UNCHANGED BesidesAudit

\* the response has gone to the client
Deliver ==
    /\ http # NoExchange
    /\ http.code # 0
    /\ http' = NoExchange
    /\ UNCHANGED <<store, BesidesStore>>

(***************************************************************************)
(* workflow_engine.py: the registry of a WorkflowEngine and match_hotkey   *)
(***************************************************************************)

\* the hotkeys of the workflows of a catalog, and those match_hotkey is asked
CatalogHotkeys ==
    { Hotkey("V"), <<"ctrl", "+", "alt", "+", "v">>, <<"CTRL", " ", "+", " ", "ALT", "+", "V">>, Hotkey("U") }

\* a workflow of a catalog: its place in the catalog is its id
CatalogWorkflow(hotkey, enabled) ==
    WorkflowConfig("", hotkey, enabled, 0, NoValidation, <<>>, <<>>)

Identified(catalog) ==
    [i \in 1..Len(catalog) |-> [catalog[i] EXCEPT !.workflow_id = StepIds[i]]]

\* the catalogs load_all_configs can hand to the engine
Catalogs ==
    UNION { { Identified(c) : c \in [1..n -> { CatalogWorkflow(h, e) : h \in CatalogHotkeys, e \in BOOLEAN }] } :
            n \in 0..MaxCatalog }

\* a WorkflowEngine: being constructed from a catalog, or constructed, with
\* self.workflows (the items of the dict) and the match_hotkey calls made
Registry(pc, catalog, workflows, lookups) ==
    [pc |-> pc, catalog |-> catalog, workflows |-> workflows, lookups |-> lookups]

\* the engine of the server after start-up
RegistryInit ==
    engine = Registry("constructed", ConfiguredWorkflows, EngineWorkflows(ConfiguredWorkflows), <<>>)

\* WorkflowEngine(...) is about to be called with a catalog
RegistryInputs == engine \in { Registry("loading", catalog, <<>>, <<>>) : catalog \in Catalogs }

\* WorkflowEngine.__init__
EngineConstruct ==
    /\ engine.pc = "loading"
    /\ engine' = [engine EXCEPT !.pc = "constructed", !.workflows = EngineWorkflows(engine.catalog)]

\* a match_hotkey call
Match ==
    /\ engine.pc = "constructed"
    /\ Len(engine.lookups) < MaxLookups
    /\ \E hotkey \in CatalogHotkeys :
          engine' = [engine EXCEPT !.lookups =
                        Append(@, [hotkey |-> hotkey, workflow |-> MatchHotkey(engine.workflows, hotkey)])]

(***************************************************************************)
(* visual_workflows.py under requests in flight                            *)
(***************************************************************************)

\* the create, update and delete requests of the clients of SpecStorage
StorageRequest(op, id, wf) == [op |-> op, id |-> id, wf |-> wf]

StorageRequests ==
    { StorageRequest("create", "wf_a", VisualWorkflow("wf_a", <<>>)),
      StorageRequest("create", "wf_b", VisualWorkflow("wf_b", <<>>)),
      StorageRequest("update", "wf_a",
                     VisualWorkflow("wf_a", <<WithId(Step("", "record_audio", TRUE, Missing, Missing), 1)>>)),
      StorageRequest("delete", "wf_a", NoWorkflow) }

\* a storage call: waiting for the event loop, between _load_all and
\* _save_all (loaded is what _load_all returned), or done (ok is false when
\* it raised ValueError)
Call(request, pc, loaded, ok) == [request |-> request, pc |-> pc, loaded |-> loaded, ok |-> ok]

StorageInit == calls = <<>>

\* create, update or delete on the list _load_all returned: what is left in
\* the file (saved is false when the call raises before _save_all)
Apply(request, workflows) ==
    CASE request.op = "create" ->
            [ok |-> Create(workflows, request.wf).ok, saved |-> Create(workflows, request.wf).ok,
             workflows |-> Create(workflows, request.wf).workflows]
      [] request.op = "update" ->
            [ok |-> Update(workflows, request.id, request.wf).ok,
             saved |-> Update(workflows, request.id, request.wf).ok,
             workflows |-> Update(workflows, request.id, request.wf).workflows]
      [] OTHER -> [ok |-> TRUE, saved |-> TRUE, workflows |-> Without(workflows, request.id)]

InterleavesMutant == TRUE

\* whether another handler can run between the _load_all and the _save_all of
\* a storage call: the handlers are async def, the storage methods
\* synchronous, and there is no await between them
Interleaves == FALSE

\* a request arrives
Submit ==
    /\ Len(calls) < MaxCalls
    /\ \E request \in StorageRequests : calls' = Append(calls, Call(request, "waiting", <<>>, FALSE))
    /\ UNCHANGED store

\* workflows = self._load_all()
Load(c) ==
    /\ calls[c].pc = "waiting"
    /\ Interleaves \/ \A d \in 1..Len(calls) : calls[d].pc # "loaded"
    /\ calls' = [calls EXCEPT ![c].pc = "loaded", ![c].loaded = store]
    /\ UNCHANGED store

\* the rest of the method: the check, the change of the list, self._save_all(workflows)
Save(c) ==
    /\ calls[c].pc = "loaded"
    /\ LET applied == Apply(calls[c].request, calls[c].loaded) IN
       /\ store' = IF applied.saved THEN applied.workflows ELSE store
       /\ calls' = [calls EXCEPT ![c].pc = "done", ![c].ok = applied.ok, ![c].loaded = <<>>]

(***************************************************************************)
(* agent/main.py, agent/middleware_client.py: HackAppAgent.start           *)
(***************************************************************************)

\* what the orchestration server is like when a request of the agent reaches it:
\* it answers /api/health with "healthy", it answers with "unhealthy" (no workflow
\* engine), it answers with an error status, or no connection can be made
ServerConditions == {"healthy", "unhealthy", "failing", "unreachable"}

\* MiddlewareClient.health_check: what start gets from the call.  session.get and
\* raise_for_status raise inside the try, and except Exception returns False, so
\* the call never raises.
HealthCheck(server) ==
    IF server \in {"failing", "unreachable"}
    THEN [raised |-> FALSE, value |-> FALSE]
    ELSE [raised |-> FALSE, value |-> server = "healthy"]

\* an entry of the list GET /api/visual-workflows answers with
ListedWorkflow(workflow_id, hotkey, enabled) ==
    [workflow_id |-> workflow_id, hotkey |-> hotkey, enabled |-> enabled]

ListedWorkflows ==
    { ListedWorkflow("w1", "CTRL+ALT+E", TRUE), ListedWorkflow("w2", "CTRL+ALT+E", TRUE),
      ListedWorkflow("w3", "CTRL+ALT+F", FALSE), ListedWorkflow("w4", "", TRUE) }

\* the lists of at most `most` visual workflows
Listings(most) == UNION { [1..n -> ListedWorkflows] : n \in 0..most }

\* MiddlewareClient.list_visual_workflows: None on any exception, else the list
ListVisualWorkflows(server, listing) ==
    IF server \in {"failing", "unreachable"}
    THEN [none |-> TRUE, workflows |-> <<>>]
    ELSE [none |-> FALSE, workflows |-> listing]

\* the loop of start over the visual workflows: self.visual_workflows afterwards
RECURSIVE VisualHotkeys(_, _)
VisualHotkeys(listing, found) ==
    IF listing = <<>> THEN found
    ELSE LET wf == Head(listing) IN
         VisualHotkeys(Tail(listing),
                       IF wf.enabled /\ wf.hotkey # "" THEN Put(found, wf.hotkey, wf.workflow_id) ELSE found)

RootInit ==
    agent = [pc |-> "initializing", server |-> "", healthy |-> FALSE, listed |-> <<>>,
             visual_workflows |-> EmptyDict, listeners |-> {}]

\* start, up to the end of the health check: sys.exit(1) when the check raised,
\* a message on the console for either value it returned
StartHealthCheck ==
    /\ agent.pc = "initializing"
    /\ \E server \in ServerConditions :
         LET check == HealthCheck(server) IN
         agent' = [agent EXCEPT !.pc = IF check.raised THEN "exited" ELSE "checked",
                                !.server = server,
                                !.healthy = ~check.raised /\ check.value]

\* start, from list_workflows to the start of the visual workflow listener
StartLoadWorkflows ==
    /\ agent.pc = "checked"
    /\ \E server \in ServerConditions, listing \in Listings(MaxListed) :
         LET visual_workflows == ListVisualWorkflows(server, listing)
             visual_hotkeys == IF visual_workflows.none \/ visual_workflows.workflows = <<>>
                               THEN EmptyDict
                               ELSE VisualHotkeys(visual_workflows.workflows, EmptyDict)
         IN agent' = [agent EXCEPT !.pc = "loaded",
                                   !.listed = visual_workflows.workflows,
                                   !.visual_workflows = visual_hotkeys,
                                   !.listeners = IF DOMAIN visual_hotkeys # {}
                                                 THEN {"visual_workflow_listener"} ELSE {}]

\* start, from self.hotkey_listener.start() to "HackApp Agent is Ready!"
StartListeners ==
    /\ agent.pc = "loaded"
    /\ agent' = [agent EXCEPT !.pc = "ready",
                              !.listeners = @ \cup {"hotkey_listener", "picker_listener"}]

(***************************************************************************)
(* agent/agent_api.py: AgentAPI.execute_write_coords                       *)
(***************************************************************************)

\* what the user had copied before any request came
UserClipboard == "copied by the user"

WriteContents == {"I10", "J45"}

InsertMethods == {"paste", "type"}

\* original_clipboard = None
NoClipboard == "<None>"

ApiInit ==
    /\ clipboard = UserClipboard
    /\ writes = <<>>

\* a request thread of the Flask server begins execute_write_coords: it reads the
\* request and backs the clipboard up
WriteReceive(most) ==
    /\ Len(writes) < most
    /\ \E content \in WriteContents, insert_method \in InsertMethods :
         writes' = Append(writes, [pc |-> "backed_up", content |-> content,
                                   insert_method |-> insert_method,
                                   original_clipboard |-> IF insert_method = "paste"
                                                          THEN clipboard ELSE NoClipboard,
                                   code |-> 0, status |-> ""])
    /\ UNCHANGED clipboard

\* pyautogui.click and time.sleep(0.3); an exception of pyautogui is answered 500
WriteClick(r) ==
    /\ writes[r].pc = "backed_up"
    /\ \E raises \in BOOLEAN :
         writes' = [writes EXCEPT ![r] = IF raises
                                         THEN [@ EXCEPT !.pc = "done", !.code = 500, !.status = "error"]
                                         ELSE [@ EXCEPT !.pc = "clicked"]]
    /\ UNCHANGED clipboard

\* pyperclip.copy(content), Ctrl+V and time.sleep(0.2), or pyautogui.write(content)
WriteInsert(r) ==
    /\ writes[r].pc = "clicked"
    /\ clipboard' = IF writes[r].insert_method = "paste" THEN writes[r].content ELSE clipboard
    /\ writes' = [writes EXCEPT ![r].pc = "inserted"]

\* the clipboard is restored when one was backed up; the key sequence; the answer
WriteRestore(r) ==
    /\ writes[r].pc = "inserted"
    /\ clipboard' = IF writes[r].insert_method = "paste" /\ writes[r].original_clipboard # NoClipboard
                    THEN writes[r].original_clipboard ELSE clipboard
    /\ writes' = [writes EXCEPT ![r] = [@ EXCEPT !.pc = "done", !.code = 200, !.status = "success"]]

(***************************************************************************)
(* agent/main.py, agent/inserter.py: a workflow hotkey pressed on the      *)
(* desktop                                                                 *)
(***************************************************************************)

\* config.BACKUP_CLIPBOARD and config.AUTO_INSERT_ENABLED
BACKUP_CLIPBOARD == TRUE
AUTO_INSERT_ENABLED == TRUE

\* the instructions a response of the server can hold
AgentInstructions ==
    { InsertionInstruction("DiagnosisText", "J18.9", mode, "text", navigation, Null, click_before, insert_method) :
        mode \in {"replace", "append", "prepend"}, navigation \in {None, "tab_2"},
        click_before \in {None, "100,200"}, insert_method \in {"type", "paste"} }

\* what the server does with the POST /api/trigger of the agent: it answers 200
\* with a WorkflowResponse, it answers with an error status, it does not answer
\* in time, or no connection can be made
Answer(kind, code, status, insertions) ==
    [kind |-> kind, code |-> code, status |-> status, insertions |-> insertions]

TriggerAnswers(most) ==
    { Answer("response", 200, status, insertions) :
        status \in {"success", "error"},
        insertions \in UNION { [1..n -> AgentInstructions] : n \in 0..most } }
    \cup { Answer("response", code, "", <<>>) : code \in {401, 500} }
    \cup { Answer(kind, 0, "", <<>>) : kind \in {"timeout", "connection_error"} }

\* MiddlewareClient.trigger_workflow: the dict it returns, or the error_code of
\* the MiddlewareError it raises
TriggerWorkflow(answer) ==
    IF answer.kind = "timeout"
    THEN [raised |-> TRUE, error_code |-> "TIMEOUT", status |-> "", insertions |-> <<>>]
    ELSE IF answer.kind = "connection_error"
    THEN [raised |-> TRUE, error_code |-> "CONNECTION_ERROR", status |-> "", insertions |-> <<>>]
    ELSE IF answer.code >= 400
    THEN [raised |-> TRUE, error_code |-> "HTTP_error", status |-> "", insertions |-> <<>>]
    ELSE [raised |-> FALSE, error_code |-> "", status |-> answer.status, insertions |-> answer.insertions]

AcceptedMutant(outcome) ==
    IF outcome.raised THEN <<>> ELSE outcome.insertions

\* on_hotkey_pressed, from the response to the insertions it goes on to make:
\* none after a MiddlewareError, for status 'error', or for an empty list
Accepted(outcome) ==
    IF outcome.raised THEN <<>>
    ELSE IF outcome.status = "error" THEN <<>>
    ELSE outcome.insertions

\* what pyautogui and time.sleep(pause_before) were called with
Event(kind, what) == [kind |-> kind, what |-> what]

NewLine == "\n"

\* FieldInserter._replace_content
ReplaceContent(content) ==
    << Event("hotkey", "ctrl+a"), Event("press", "delete"), Event("write", content) >>

\* FieldInserter._append_content
AppendContent(content) ==
    << Event("hotkey", "ctrl+end"), Event("write", NewLine), Event("write", content) >>

\* FieldInserter._prepend_content
PrependContent(content) ==
    << Event("hotkey", "ctrl+home"), Event("write", content), Event("write", NewLine) >>

\* FieldInserter._navigate, on the navigation instructions of the model
Navigate(navigation_instruction) ==
    CASE navigation_instruction = "tab_2" -> << Event("press", "tab"), Event("press", "tab") >>
      [] navigation_instruction = "enter" -> << Event("press", "enter") >>
      [] navigation_instruction = "down_1" -> << Event("press", "down") >>
      [] OTHER -> <<>>

\* FieldInserter.insert: the pause before, the mode, the navigation.  The
\* instruction's click_before and insert_method are not read.  The sleeps
\* between and after the pyautogui calls are not recorded.
Insert(instruction) ==
    << Event("pause", "") >>
    \o (CASE instruction.mode = "replace" -> ReplaceContent(instruction.content)
          [] instruction.mode = "append" -> AppendContent(instruction.content)
          [] instruction.mode = "prepend" -> PrependContent(instruction.content)
          [] OTHER -> <<>>)
    \o (IF instruction.navigation # None THEN Navigate(instruction.navigation) ELSE <<>>)

NoOutcome == [raised |-> FALSE, error_code |-> "", status |-> "", insertions |-> <<>>]

PressInit ==
    pressed = [pc |-> "idle", outcome |-> NoOutcome, restored |-> FALSE, remaining |-> <<>>,
               inserted |-> <<>>, ui_events |-> <<>>]

\* on_hotkey_pressed up to insert_multiple: the context is captured (the
\* clipboard is read and backed up, when it can be), the server is called, and
\* the clipboard is restored when there are insertions to make
PressHotkey(most) ==
    /\ pressed.pc = "idle"
    /\ \E backup \in {None, UserClipboard}, answer \in TriggerAnswers(most) :
         LET outcome == TriggerWorkflow(answer)
             insertions == Accepted(outcome)
         IN pressed' = [pc |-> IF insertions # <<>> /\ AUTO_INSERT_ENABLED THEN "inserting" ELSE "done",
                        outcome |-> outcome,
                        restored |-> insertions # <<>> /\ BACKUP_CLIPBOARD /\ backup # None,
                        remaining |-> IF AUTO_INSERT_ENABLED THEN insertions ELSE <<>>,
                        inserted |-> <<>>,
                        ui_events |-> <<>>]

\* insert_multiple: one turn of its loop
InsertNext ==
    /\ pressed.pc = "inserting"
    /\ pressed' = [pressed EXCEPT !.ui_events = @ \o Insert(Head(pressed.remaining)),
                                  !.inserted = Append(@, Head(pressed.remaining)),
                                  !.remaining = Tail(@),
                                  !.pc = IF Tail(pressed.remaining) = <<>> THEN "done" ELSE "inserting"]

(***************************************************************************)
(* Specifications                                                          *)
(***************************************************************************)

(***************************************************************************)
(* visual_executor.py: execute over write_coords steps, with the posts     *)
(* the agent receives                                                      *)
(***************************************************************************)

\* the content_template of the write_coords steps of the model: empty, a
\* name the variables may hold, a path into a string or past a mapping, a
\* mapping, text around a padded path
WriteTemplates ==
    { <<>>,
      <<"{", "a", "}">>,
      <<"{", "b", ".", "a", "}">>,
      <<"-", "{", "b", "}">>,
      <<"-", "{", " ", "b", " ", ".", " ", "c", " ", "}", "{", "c", "}">> }

\* workflows of write_coords steps
WriteWorkflows ==
    UNION { { [i \in 1..n |-> [WithId(Step("", "write_coords", TRUE, Missing, Missing), i)
                                  EXCEPT !.content_template = t[i]]] :
              t \in [1..n -> WriteTemplates] } : n \in 1..MaxWriteSteps }

PostInit == agent_posts = <<>>

\* a caller of the executor calls execute on a workflow of write_coords steps
WriteStart ==
    /\ exec_pc = "idle"
    /\ \E wf \in WriteWorkflows, init \in RenderVariables : BeginExecute(wf, init)
    /\ agent_posts' = <<>>

\* an iteration of the for loop, with the post its step makes
WriteStep(env) ==
    /\ RunStep(env)
    /\ agent_posts' = agent_posts \o Posted(workflow[position], variables, env)

\* the for loop is over
WriteFinish == ExecutorFinish /\ UNCHANGED agent_posts

\* the caller has the response
WriteReturn == ExecutorReturn /\ UNCHANGED agent_posts

Init == ConnInit /\ ExecInit /\ ServerInit /\ StorageInit /\ RenderInit /\ RegistryInit /\ RootInit /\ ApiInit /\ PressInit /\ PostInit

\* what a call on the connector leaves alone
OutsideConnector == <<execVars, serverVars, storageVars, renderVars, registryVars, rootVars, apiVars, insertVars, postVars>>

\* what a call on the executor leaves alone
OutsideExecutor == <<connVars, serverVars, storageVars, renderVars, registryVars, rootVars, apiVars, insertVars, postVars>>

NextConnector ==
    \/ UNCHANGED OutsideConnector /\ \E cfg \in ConnectorConfigs : Construct(cfg)
    \/ UNCHANGED OutsideConnector /\ \E e \in EndpointNames : Execute(e)
    \/ UNCHANGED OutsideConnector /\ \E o \in Outcomes : Attempt(o)
    \/ UNCHANGED OutsideConnector /\ ConnNext

SpecConnector == Init /\ [][NextConnector]_vars

NextExecutor ==
    \/ UNCHANGED OutsideExecutor /\ ExecutorStart
    \/ UNCHANGED OutsideExecutor /\ SkipDisabled
    \/ UNCHANGED OutsideExecutor /\ \E env \in CurrentEnvs : RunStep(env)
    \/ UNCHANGED OutsideExecutor /\ ExecutorFinish
    \/ UNCHANGED OutsideExecutor /\ ExecutorReturn

SpecExecutor == Init /\ [][NextExecutor]_vars

\* what a handler that does not run the executor leaves alone
OutsideHandlers == <<connVars, execVars, storageVars, renderVars, registryVars, rootVars, apiVars, insertVars, postVars>>

\* what the handler that runs the executor leaves alone
OutsideServer == <<connVars, storageVars, renderVars, registryVars, rootVars, apiVars, insertVars, postVars>>

\* the requests of a client: an Authorization header, and whether body and
\* parameters validate
Requests ==
    { <<a, TRUE>> : a \in AuthorizationHeaders } \cup { <<<<>>, FALSE>>, <<<<"Bearer", MIDDLEWARE_TOKEN>>, FALSE>> }

\* what the requests of the clients of SpecServer carry
OneWorkflow == { VisualWorkflow("wf_a", steps) : steps \in { t \in SavedSteps : Len(t) # 2 } }
SomeHotkeys == { Hotkey("V"), Hotkey("Z") }
SomeUpstreams == { u \in Upstreams : u.kind = "returns" /\ "$.icd10.code" \in DOMAIN u.data /\ ValidIcd10(u.data["$.icd10.code"]) }

\* the server under requests to every endpoint
NextServer ==
    \/ UNCHANGED OutsideHandlers /\ Ready /\ \E a \in AuthorizationHeaders : HttpRoot(a)
    \/ UNCHANGED OutsideHandlers /\ Ready /\ \E a \in AuthorizationHeaders, exists \in BOOLEAN : HttpExcelDashboard(a, exists)
    \/ UNCHANGED OutsideHandlers /\ Ready /\ \E a \in AuthorizationHeaders : HttpHealth(a)
    \/ UNCHANGED OutsideHandlers /\ Ready /\ \E a \in AuthorizationHeaders : HttpListWorkflows(a)
    \/ UNCHANGED OutsideHandlers /\ Ready /\ \E r \in Requests : HttpRecentAudit(r[1], r[2])
    \/ UNCHANGED OutsideHandlers /\ Ready /\ \E r \in Requests : HttpTrigger(r[1], r[2], SomeHotkeys, SomeUpstreams)
    \/ UNCHANGED OutsideHandlers /\ Ready /\ \E a \in AuthorizationHeaders : HttpListVisualWorkflows(a)
    \/ UNCHANGED OutsideHandlers /\ Ready /\ \E r \in Requests : HttpCreateVisualWorkflow(r[1], r[2], OneWorkflow)
    \/ UNCHANGED OutsideHandlers /\ Ready /\ \E a \in AuthorizationHeaders : HttpGetVisualWorkflow(a, {"wf_a"})
    \/ UNCHANGED OutsideHandlers /\ Ready /\ \E r \in Requests : HttpUpdateVisualWorkflow(r[1], r[2], {"wf_a"}, OneWorkflow)
    \/ UNCHANGED OutsideHandlers /\ Ready /\ \E a \in AuthorizationHeaders : HttpDeleteVisualWorkflow(a, {"wf_a"})
    \/ UNCHANGED OutsideServer /\ Ready /\ \E a \in AuthorizationHeaders : HttpExecuteVisualWorkflow(a, {"wf_a"}, {EmptyDict})
    \/ UNCHANGED OutsideExecutor /\ SkipDisabled
    \/ UNCHANGED OutsideExecutor /\ \E env \in CurrentEnvs : RunStep(env)
    \/ UNCHANGED OutsideExecutor /\ ExecutorFinish
    \/ UNCHANGED OutsideServer /\ HttpExecuteReturn
    \/ UNCHANGED OutsideHandlers /\ Ready /\ \E r \in Requests : HttpActivatePicker(r[1], r[2], {"s1"}, FieldNames)
    \/ UNCHANGED OutsideHandlers /\ Ready /\ \E r \in Requests : HttpReceiveCoordinates(r[1], r[2], {"120"})
    \/ UNCHANGED OutsideHandlers /\ Ready /\ \E a \in AuthorizationHeaders : HttpPickerStatus(a, {"s1"})
    \/ UNCHANGED OutsideHandlers /\ Ready /\ \E r \in Requests : HttpPreviewOcr(r[1], r[2])
    \/ UNCHANGED OutsideHandlers /\ Ready /\ \E r \in Requests : HttpUploadExcel(r[1], r[2])
    \/ UNCHANGED OutsideHandlers /\ Ready /\ \E r \in Requests : HttpExcelColumns(r[1], r[2])
    \/ UNCHANGED OutsideHandlers /\ Ready /\ \E a \in AuthorizationHeaders : HttpStartAgent(a, MaxStartingServer)
    \/ UNCHANGED OutsideHandlers /\ ResumeStartAgent
    \/ UNCHANGED OutsideHandlers /\ \E p \in alive : AgentExits(p)
    \/ UNCHANGED OutsideHandlers /\ Ready /\ \E a \in AuthorizationHeaders : HttpStopAgent(a)
    \/ UNCHANGED OutsideHandlers /\ Ready /\ \E a \in AuthorizationHeaders : HttpAgentStatus(a)
    \/ UNCHANGED OutsideHandlers /\ Ready /\ \E a \in AuthorizationHeaders : HttpAgentLogs(a)
    \/ UNCHANGED OutsideHandlers /\ Deliver

SpecServer == Init /\ [][NextServer]_vars

\* the server under requests to the visual workflow endpoints
NextStore ==
    \/ UNCHANGED OutsideHandlers /\ Ready /\ \E a \in AuthorizationHeaders : HttpListVisualWorkflows(a)
    \/ UNCHANGED OutsideHandlers /\ Ready /\ \E r \in Requests : HttpCreateVisualWorkflow(r[1], r[2], VisualWorkflows)
    \/ UNCHANGED OutsideHandlers /\ Ready /\ \E a \in AuthorizationHeaders : HttpGetVisualWorkflow(a, WorkflowIds)
    \/ UNCHANGED OutsideHandlers /\ Ready /\ \E r \in Requests : HttpUpdateVisualWorkflow(r[1], r[2], WorkflowIds, VisualWorkflows)
    \/ UNCHANGED OutsideHandlers /\ Ready /\ \E a \in AuthorizationHeaders : HttpDeleteVisualWorkflow(a, WorkflowIds)
    \/ UNCHANGED OutsideServer /\ Ready /\ \E a \in AuthorizationHeaders : HttpExecuteVisualWorkflow(a, WorkflowIds, SuppliedVariables)
    \/ UNCHANGED OutsideExecutor /\ SkipDisabled
    \/ UNCHANGED OutsideExecutor /\ \E env \in CurrentEnvs : RunStep(env)
    \/ UNCHANGED OutsideExecutor /\ ExecutorFinish
    \/ UNCHANGED OutsideServer /\ HttpExecuteReturn
    \/ UNCHANGED OutsideHandlers /\ Deliver

SpecStore == Init /\ [][NextStore]_vars

\* the server under requests to the declarative workflow endpoints
NextEngine ==
    \/ UNCHANGED OutsideHandlers /\ Ready /\ \E a \in AuthorizationHeaders : HttpListWorkflows(a)
    \/ UNCHANGED OutsideHandlers /\ Ready /\ \E r \in Requests : HttpRecentAudit(r[1], r[2])
    \/ UNCHANGED OutsideHandlers /\ Ready /\ \E r \in Requests : HttpTrigger(r[1], r[2], TriggerHotkeys, Upstreams)
    \/ UNCHANGED OutsideHandlers /\ Deliver

SpecEngine == Init /\ [][NextEngine]_vars

\* the hotkeys and the upstream answers of the runs SpecAudit follows: a
\* workflow with a length bound and validation, and no workflow
AuditHotkeys == { Hotkey("V"), Hotkey("Z") }

AuditUpstreams ==
    { Upstream("returns", "", Json(<<"o", "k">>, <<"j", "1", "8", ".", "9">>)),
      Upstream("returns", "", Json(<<"o", "k">>, <<"X", "Y", "Z">>)),
      Upstream("raises", "TIMEOUT", Json(<<>>, <<>>)) }

\* the hotkeys of the runs SpecTrigger follows: workflows with and without
\* length bounds, with outputs of every kind, a disabled one and no workflow
GuardedHotkeys == { Hotkey("V"), Hotkey("B"), Hotkey("P"), Hotkey("X"), Hotkey("Z") }

\* a response body in which only $.icd10.code has a match
OnlyCode == [p \in {"$.icd10.code"} |-> <<"j", "1", "8", ".", "9">>]

GuardedUpstreams ==
    { Upstream("returns", "", Json(<<"o", "k">>, <<"j", "1", "8", ".", "9">>)),
      Upstream("returns", "", OnlyCode),
      Upstream("raises", "TIMEOUT", Json(<<>>, <<>>)),
      Upstream("not_registered", "", Json(<<>>, <<>>)) }

\* the runs of POST /api/trigger, by what the engine validates, sends and returns
NextTrigger ==
    \/ UNCHANGED OutsideHandlers /\ Ready /\ \E r \in Requests : HttpTrigger(r[1], r[2], GuardedHotkeys, GuardedUpstreams)
    \/ UNCHANGED OutsideHandlers /\ Deliver

SpecTrigger == Init /\ [][NextTrigger]_vars

\* the runs of POST /api/trigger and the audit log they write
NextAudit ==
    \/ UNCHANGED OutsideHandlers /\ Ready /\ \E r \in Requests : HttpTrigger(r[1], r[2], AuditHotkeys, AuditUpstreams)
    \/ UNCHANGED OutsideHandlers /\ Ready /\ \E r \in Requests : HttpRecentAudit(r[1], r[2])
    \/ UNCHANGED OutsideHandlers /\ Deliver

SpecAudit == Init /\ [][NextAudit]_vars

\* the dashboard at the agent control endpoints, and the agent processes
NextAgent ==
    \/ UNCHANGED OutsideHandlers /\ Ready /\ \E a \in AuthorizationHeaders : HttpStartAgent(a, MaxStarting)
    \/ UNCHANGED OutsideHandlers /\ ResumeStartAgent
    \/ UNCHANGED OutsideHandlers /\ \E p \in alive : AgentExits(p)
    \/ UNCHANGED OutsideHandlers /\ Ready /\ \E a \in AuthorizationHeaders : HttpStopAgent(a)
    \/ UNCHANGED OutsideHandlers /\ Ready /\ \E a \in AuthorizationHeaders : HttpAgentStatus(a)
    \/ UNCHANGED OutsideHandlers /\ Shutdown
    \/ UNCHANGED OutsideHandlers /\ Deliver

SpecAgent == Init /\ [][NextAgent]_vars

\* the dashboard and the agent at the picker endpoints, with two sessions
NextPicker ==
    \/ UNCHANGED OutsideHandlers /\ Ready /\ \E r \in Requests : HttpActivatePicker(r[1], r[2], SessionIds, BothFieldNames)
    \/ UNCHANGED OutsideHandlers /\ Ready /\ \E r \in Requests : HttpReceiveCoordinates(r[1], r[2], Coordinates)
    \/ UNCHANGED OutsideHandlers /\ Ready /\ \E a \in AuthorizationHeaders : HttpPickerStatus(a, SessionIds)
    \/ UNCHANGED OutsideHandlers /\ Deliver

SpecPicker == Init /\ [][NextPicker]_vars

\* what the storage calls leave alone
OutsideStorage == <<connVars, execVars, BesidesStore, http, renderVars, registryVars, rootVars, apiVars, insertVars, postVars>>

\* the visual workflow storage under requests in flight
NextStorage ==
    \/ UNCHANGED OutsideStorage /\ Submit
    \/ UNCHANGED OutsideStorage /\ \E c \in 1..Len(calls) : Load(c)
    \/ UNCHANGED OutsideStorage /\ \E c \in 1..Len(calls) : Save(c)

SpecStorage == Init /\ [][NextStorage]_vars

\* what a _render_template call leaves alone
OutsideRender == <<connVars, execVars, serverVars, storageVars, registryVars, rootVars, apiVars, insertVars, postVars>>

NextRender ==
    \/ UNCHANGED OutsideRender /\ RenderCall

\* _render_template on every template and self.variables of the model
InitRender == ConnInit /\ ExecInit /\ ServerInit /\ StorageInit /\ RenderInputs /\ RegistryInit /\ RootInit /\ ApiInit /\ PressInit /\ PostInit

SpecRender == InitRender /\ [][NextRender]_vars

\* what the engine's constructor and match_hotkey leave alone
OutsideRegistry == <<connVars, execVars, serverVars, storageVars, renderVars, rootVars, apiVars, insertVars, postVars>>

NextRegistry ==
    \/ UNCHANGED OutsideRegistry /\ EngineConstruct
    \/ UNCHANGED OutsideRegistry /\ Match

InitRegistry == ConnInit /\ ExecInit /\ ServerInit /\ StorageInit /\ RenderInit /\ RegistryInputs /\ RootInit /\ ApiInit /\ PressInit /\ PostInit

\* a WorkflowEngine built from every catalog of the model, and asked
SpecRegistry == InitRegistry /\ [][NextRegistry]_vars

\* what HackAppAgent.start leaves alone
OutsideRoot == <<connVars, execVars, serverVars, storageVars, renderVars, registryVars, apiVars, insertVars, postVars>>

NextRoot ==
    \/ UNCHANGED OutsideRoot /\ StartHealthCheck
    \/ UNCHANGED OutsideRoot /\ StartLoadWorkflows
    \/ UNCHANGED OutsideRoot /\ StartListeners

\* one start of the agent against a server in any condition
SpecRoot == Init /\ [][NextRoot]_vars

\* what the callback server of the agent leaves alone
OutsideApi == <<connVars, execVars, serverVars, storageVars, renderVars, registryVars, rootVars, insertVars, postVars>>

NextApi ==
    \/ UNCHANGED OutsideApi /\ WriteReceive(MaxWrites)
    \/ UNCHANGED OutsideApi /\ \E r \in DOMAIN writes : WriteClick(r)
    \/ UNCHANGED OutsideApi /\ \E r \in DOMAIN writes : WriteInsert(r)
    \/ UNCHANGED OutsideApi /\ \E r \in DOMAIN writes : WriteRestore(r)

\* write_coords requests, each in a thread of its own
SpecApi == Init /\ [][NextApi]_vars

\* what a press of a workflow hotkey leaves alone
OutsidePress == <<connVars, execVars, serverVars, storageVars, renderVars, registryVars, rootVars, apiVars, postVars>>

NextPress ==
    \/ UNCHANGED OutsidePress /\ PressHotkey(MaxInsertions)
    \/ UNCHANGED OutsidePress /\ InsertNext

\* one press of a workflow hotkey, whatever the server does with the trigger
SpecPress == Init /\ [][NextPress]_vars

OutsideWrite == <<connVars, serverVars, storageVars, renderVars, registryVars, rootVars, apiVars, insertVars>>

NextWrite ==
    \/ UNCHANGED OutsideWrite /\ WriteStart
    \/ UNCHANGED OutsideWrite /\ \E env \in CurrentEnvs : WriteStep(env)
    \/ UNCHANGED OutsideWrite /\ WriteFinish
    \/ UNCHANGED OutsideWrite /\ WriteReturn

SpecWrite == Init /\ [][NextWrite]_vars

(***************************************************************************)
(* Claims about the connector                                              *)
(***************************************************************************)

Is4xx(o) == o.kind = "response" /\ 400 <= o.status /\ o.status <= 499
Is5xx(o) == o.kind = "response" /\ 500 <= o.status /\ o.status <= 599
IsNonJson2xx(o) == o.kind = "response" /\ 200 <= o.status /\ o.status <= 299 /\ o.body = NotJson
\* the outcomes the retry algorithm names as retriable
IsRetriable(o) == Is5xx(o) \/ o.kind \in {"timeout", "connection_error"}
\* the error code the retry algorithm gives a retriable outcome
CodeOf(o) ==
    IF o.kind = "timeout" THEN ErrCode("TIMEOUT", 0)
    ELSE IF o.kind = "connection_error" THEN ErrCode("CONNECTION_ERROR", 0)
    ELSE ErrCode("SERVER_ERROR", 0)

\* C4: a terminal outcome is never retried, whatever the retry policy: a 4xx
\* response is the last request of the call, raises HTTP_<code> and is followed
\* by no sleep; a 2xx response that is not JSON is the last request of the call
\* and raises INVALID_RESPONSE.
C4_TerminalNeverRetried ==
    \A i \in 1..Len(requests) :
        /\ Is4xx(requests[i]) =>
              /\ i = Len(requests)
              /\ Len(sleeps) = i - 1
              /\ conn_pc # "requesting"
              /\ conn_pc = "done" => conn_result = ConnectorError(ErrCode("HTTP", requests[i].status))
        /\ IsNonJson2xx(requests[i]) =>
              /\ i = Len(requests)
              /\ conn_pc # "requesting"
              /\ conn_pc = "done" => conn_result = ConnectorError(ErrCode("INVALID_RESPONSE", 0))

\* a 4xx answer to the second request of a call that had two retries left
C4_Witness ==
    /\ conn_pc = "done"
    /\ max_retries = 2
    /\ Len(requests) = 2
    /\ Is5xx(requests[1])
    /\ Is4xx(requests[2])

\* C5: a call issues at most max_retries + 1 requests and then ends (while it
\* runs, fewer than max_retries + 1 were issued and the next one is possible);
\* when every attempt failed with a retriable outcome, all max_retries + 1
\* requests were issued and the error raised is the one of the final attempt.
C5_BoundedFinalErrorSurfaced ==
    /\ Len(requests) <= max_retries + 1
    /\ conn_pc = "requesting" => Len(requests) = attempt /\ attempt <= max_retries
    /\ (conn_pc = "done" /\ requests # <<>> /\ \A i \in 1..Len(requests) : IsRetriable(requests[i])) =>
          /\ Len(requests) = max_retries + 1
          /\ conn_result = ConnectorError(CodeOf(requests[Len(requests)]))

\* three failed attempts whose last error differs from the earlier ones
C5_Witness ==
    /\ conn_pc = "done"
    /\ max_retries = 2
    /\ Len(requests) = 3
    /\ requests[1].kind = "timeout"
    /\ Is5xx(requests[2])
    /\ requests[3].kind = "connection_error"
    /\ conn_result = ConnectorError(ErrCode("CONNECTION_ERROR", 0))

\* a request that neither returned a usable response nor ended the call
Failed(o) == ~(o.kind = "response" /\ o.status < 400)

\* C6: the k-th sleep (k from 0) follows failed attempt k and lasts
\* initial_delay (fixed) or initial_delay * 2^k (exponential); there is no
\* sleep after a successful attempt or after the final attempt; with
\* max_retries=2, exponential, initial_delay=0.1s and answers 503, 503, 200
\* execute returns the parsed body after exactly two sleeps of 0.1s and 0.2s.
C6_BackoffDelays ==
    /\ \A k \in 0..(Len(sleeps) - 1) :
          /\ k + 1 <= Len(requests)
          /\ Failed(requests[k + 1])
          /\ k < max_retries
          /\ sleeps[k + 1] = IF backoff = "exponential" THEN initial_delay * (2 ^ k) ELSE initial_delay
    /\ conn_pc = "done" /\ requests # <<>> => Len(sleeps) = Len(requests) - 1
    /\ conn_pc = "requesting" => Len(sleeps) = Len(requests)
    /\ (/\ conn_pc = "done"
        /\ config.retry_policy = [present |-> TRUE, max_retries |-> 2, backoff |-> "exponential", initial_delay |-> 100]
        /\ requests = <<Response(503, NotJson), Response(503, NotJson), Response(200, JsonBody)>>)
       => conn_result = Returned(JsonBody) /\ sleeps = <<100, 200>>

\* the scenario: 503, 503, 200 under max_retries=2, exponential, 0.1s
C6_Witness ==
    /\ conn_pc = "done"
    /\ config.retry_policy = [present |-> TRUE, max_retries |-> 2, backoff |-> "exponential", initial_delay |-> 100]
    /\ requests = <<Response(503, NotJson), Response(503, NotJson), Response(200, JsonBody)>>

OneSecondPolicy == [present |-> TRUE, max_retries |-> 2, backoff |-> "exponential", initial_delay |-> 1000]

ThreeServerErrors ==
    /\ conn_pc = "done"
    /\ config.retry_policy = OneSecondPolicy
    /\ Len(requests) >= 3
    /\ \A i \in 1..3 : Is5xx(requests[i])

\* C7 as stated: under max_retries=2, exponential, initial_delay=1s a server
\* that answers 5xx three times and then 200 yields success, with delays of
\* 1s and 2s.
C7_Original ==
    ThreeServerErrors => conn_result.kind = "return" /\ sleeps = <<1000, 2000>>

\* C7 as amended: under max_retries=2, exponential, initial_delay=1s a server
\* that answers 5xx three times (and would answer 200 to a fourth request)
\* yields a SERVER_ERROR failure after exactly three requests, with delays of
\* 1s and 2s totalling 3s; success needs the 200 by the third request.
C7_ThreeFailuresExhaustRetries ==
    /\ ThreeServerErrors =>
          /\ Len(requests) = 3
          /\ conn_result = ConnectorError(ErrCode("SERVER_ERROR", 0))
          /\ sleeps = <<1000, 2000>>
          /\ sleeps[1] + sleeps[2] = 3000
    /\ (/\ conn_pc = "done"
        /\ config.retry_policy = OneSecondPolicy
        /\ Len(requests) = 3
        /\ Is5xx(requests[1]) /\ Is5xx(requests[2])
        /\ requests[3] = Response(200, JsonBody))
       => conn_result = Returned(JsonBody) /\ sleeps = <<1000, 2000>>

C7_Witness == ThreeServerErrors /\ conn_result.kind = "raise"

\* the error taxonomy of the connector pool
Taxonomy ==
    { ErrCode(n, 0) : n \in {"TIMEOUT", "CONNECTION_ERROR", "SERVER_ERROR", "INVALID_RESPONSE",
                              "AUTH_ERROR", "INVALID_ENDPOINT"} }
    \cup { ErrCode("HTTP", s) : s \in 400..499 }

\* C8 as stated: every failure of construction or execute is a ConnectorError
\* whose code is in the taxonomy.
C8_Original ==
    conn_result.kind = "raise" => conn_result.exc = "ConnectorError" /\ conn_result.code \in Taxonomy

\* C8 as amended: every failure of a rest_api connector (construction or
\* execute) is a ConnectorError whose code is in the taxonomy or is
\* UNKNOWN_ERROR (an unexpected exception while requesting); constructing a
\* soap or custom connector raises NotImplementedError.
C8_ErrorCodes ==
    conn_result.kind = "raise" =>
        IF config.type = "rest_api"
        THEN /\ conn_result.exc = "ConnectorError"
             /\ conn_result.code \in Taxonomy \cup {ErrCode("UNKNOWN_ERROR", 0)}
        ELSE conn_result.exc = "NotImplementedError"

\* a call whose attempts all timed out
C8_Witness ==
    /\ conn_pc = "done"
    /\ conn_result = ConnectorError(ErrCode("TIMEOUT", 0))
    /\ Len(requests) = 2


(***************************************************************************)
(* Claims about the visual workflow executor                               *)
(***************************************************************************)

\* the variable a step writes when it succeeds, Missing when it writes none
WrittenBy(step) ==
    CASE step.step_type \in {"read_coords", "lookup_excel"} -> step.output_variable
      [] step.step_type = "format_with_llm" ->
            IF step.output_variable = Missing THEN "formatted_fields" ELSE step.output_variable
      [] step.step_type = "record_audio" ->
            IF step.output_variable = Missing THEN "audio_file" ELSE step.output_variable
      [] step.step_type \in {"transcribe_audio", "speech_to_text"} ->
            IF step.output_variable \in {Missing, "transcription"} THEN Missing ELSE step.output_variable
      [] OTHER -> Missing

\* the variables written by the steps that ran before the last one
WrittenBeforeLast ==
    { WrittenBy(workflow[executed[j]]) : j \in 1..(Len(executed) - 1) } \ {Missing}

\* C1: execute short-circuits on the first failing step. Once a step has
\* returned status 'error' it is the last step that ran (every step before it
\* succeeded, none after it runs: the call is over), the response has status
\* 'error' and the failing step's step_id, and its variables are the
\* environment as it was before the failing step: the initial variables plus
\* the outputs of the steps that succeeded before it, the failing step having
\* written nothing.
C1_ShortCircuitOnFirstFailure ==
    \A i \in 1..Len(results) :
        results[i].status = "error" =>
            /\ i = Len(results)
            /\ Len(executed) = i
            /\ exec_pc = "done"
            /\ response.status = "error"
            /\ response.step_id = results[i].step_id
            /\ response.step_id = workflow[executed[i]].step_id
            /\ response.error = results[i].error
            /\ response.variables = variables
            /\ response.variables = before_step
            /\ DOMAIN response.variables = (DOMAIN initial_variables) \cup WrittenBeforeLast
            /\ \A x \in (DOMAIN initial_variables) \ WrittenBeforeLast :
                  response.variables[x] = initial_variables[x]

\* a step failed after a step whose output replaced an initial variable, with
\* an enabled step left behind it
C1_Witness ==
    /\ exec_pc = "done"
    /\ response.status = "error"
    /\ response.step_id = "2"
    /\ Len(results) = 2
    /\ results[1].status = "success"
    /\ results[2].status = "error"
    /\ Len(workflow) = 3
    /\ workflow[3].enabled
    /\ WrittenBeforeLast \cap DOMAIN initial_variables # {}
    /\ response.variables # initial_variables

\* the variables the steps handed to _execute_step can have written
WrittenByExecuted ==
    { WrittenBy(workflow[executed[j]]) : j \in 1..Len(executed) } \ {Missing}

\* C16: within one execute call the enabled steps run one at a time in list
\* order, a step is handed to _execute_step only after the enabled step
\* before it has returned success, and a step with enabled false is never
\* handed to _execute_step, has no entry in the results and writes no variable.
C16_SequentialEnabledOnly ==
    exec_pc # "idle" =>
        /\ \A j \in 1..Len(executed) :
              /\ executed[j] \in 1..Len(workflow)
              /\ executed[j] <= position
              /\ workflow[executed[j]].enabled
        /\ \A j \in 1..(Len(executed) - 1) : executed[j] < executed[j + 1]
        /\ \A k \in 1..Len(workflow) :
              (k < position /\ workflow[k].enabled) => \E j \in 1..Len(executed) : executed[j] = k
        /\ Len(results) <= Len(executed)
        /\ \A i \in 1..Len(results) : results[i].step_id = workflow[executed[i]].step_id
        /\ \A j \in 2..Len(executed) :
              /\ Len(results) >= j - 1
              /\ results[j - 1].status = "success"
        /\ DOMAIN variables \subseteq (DOMAIN initial_variables) \cup WrittenByExecuted

\* a call has returned success on a workflow whose second step is disabled:
\* the first and the third step ran, the second left no result and no variable
C16_Witness ==
    /\ exec_pc = "done"
    /\ response.status = "success"
    /\ Len(workflow) = 3
    /\ ~workflow[2].enabled
    /\ executed = <<1, 3>>
    /\ Len(response.steps) = 2
    /\ workflow[2].output_variable \notin DOMAIN variables

C18_EnvironmentScoped ==
    [][/\ (exec_pc = "idle" /\ exec_pc' = "running") => variables' = initial_variables'
       /\ exec_pc = "done" =>
             /\ response.variables = variables
             /\ DOMAIN response.variables \subseteq (DOMAIN initial_variables) \cup WrittenByExecuted
      ]_vars

\* a call without initial variables has begun while self.variables held the
\* variables of an earlier call: its environment is empty
C18_Witness ==
    /\ exec_pc = "running"
    /\ stale
    /\ executed = <<>>
    /\ initial_variables = EmptyDict
    /\ variables = EmptyDict

(***************************************************************************)
(* Claims about the orchestration server                                   *)
(***************************************************************************)

\* the configured workflow with the id
Configured(workflow_id) ==
    CHOOSE wf \in { ConfiguredWorkflows[i] : i \in 1..Len(ConfiguredWorkflows) } :
        wf.workflow_id = workflow_id

ConfiguredIds == { ConfiguredWorkflows[i].workflow_id : i \in 1..Len(ConfiguredWorkflows) }

\* C2, as the specification states it: for a workflow with a non-empty
\* allowed_fields whitelist, POST /api/trigger never answers status "success"
\* with an insertion whose target_field is outside the whitelist, whether or
\* not the workflow has a validation clause.
C2_WhitelistNeverBypassed ==
    (/\ http.endpoint = "POST /api/trigger"
     /\ http.body.triggered.status = "success"
     /\ http.body.triggered.workflow_id \in ConfiguredIds
     /\ Configured(http.body.triggered.workflow_id).allowed_fields # <<>>)
    => \A k \in 1..Len(http.body.triggered.insertions) :
          Whitelisted(Configured(http.body.triggered.workflow_id).allowed_fields,
                      http.body.triggered.insertions[k].target_field)

\* an Authorization header of the form "Bearer <token>" with the token of the server
BearerToken(authorization) ==
    /\ Len(authorization) = 2
    /\ authorization[1] \in {"Bearer", "bearer"}
    /\ authorization[2] = MIDDLEWARE_TOKEN

\* a handler has taken a request
Handled == http = NoExchange /\ http' # NoExchange

\* the server state a rejected request must leave alone
Guarded == <<store, picker_sessions, current_session_id, agent_process>>

C9_DistinctIds ==
    \A i, j \in 1..Len(store) : i # j => store[i].workflow_id # store[j].workflow_id

\* C10: a POST /api/visual-workflows that passes validation and verify_token
\* and whose workflow_id is already in the store is answered 400, and the
\* stored list is what it was.
C10_DuplicateCreateRejected ==
    [][(/\ Handled
        /\ http'.endpoint = "POST /api/visual-workflows"
        /\ http'.code \notin {401, 422}
        /\ Stored(store, http'.body.workflow.workflow_id))
       => /\ http'.code = 400
          /\ store' = store
      ]_vars

\* a POST with the id of a stored workflow and other steps has been answered 400
C10_Witness ==
    /\ http.endpoint = "POST /api/visual-workflows"
    /\ http.code = 400
    /\ Stored(store, http.body.workflow.workflow_id)
    /\ Get(store, http.body.workflow.workflow_id) # http.body.workflow

\* the workflow id a request to a visual workflow endpoint is about
Target(exchange) ==
    IF exchange.endpoint = "POST /api/visual-workflows" THEN exchange.body.workflow.workflow_id
    ELSE exchange.path

\* C11, as the specification states it: after a successful create of W,
\* get(W.workflow_id) returns W, and a request about another id leaves what get
\* returns for a stored id as it was.
C11_CreateThenGet ==
    [][Handled =>
         /\ (http'.endpoint = "POST /api/visual-workflows" /\ http'.code = 200)
            => Get(store', http'.body.workflow.workflow_id) = http'.body.workflow
         /\ \A id \in WorkflowIds :
               (Stored(store, id) /\ id # Target(http')) => Get(store', id) = Get(store, id)
      ]_vars

\* the endpoints with a {workflow_id} in the path
WorkflowIdEndpoints ==
    { "GET /api/visual-workflows/{workflow_id}",
      "PUT /api/visual-workflows/{workflow_id}",
      "DELETE /api/visual-workflows/{workflow_id}",
      "POST /api/visual-workflows/{workflow_id}/execute" }

\* C12, as the specification states it: GET, PUT, DELETE and POST .../execute
\* for a workflow id that is not in the store, and GET /api/picker/status for
\* a session that was never activated, answer 404 and change no state.
C12_UnknownIdNotFound ==
    [][Handled =>
         /\ (/\ http'.endpoint \in WorkflowIdEndpoints
             /\ http'.code \notin {401, 422}
             /\ ~Stored(store, http'.path))
            => (http'.code = 404 /\ UNCHANGED <<Guarded, execVars, audit, alive, starting>>)
         /\ (/\ http'.endpoint = "GET /api/picker/status/{session_id}"
             /\ http'.code \notin {401, 422}
             /\ http'.path \notin DOMAIN picker_sessions)
            => (http'.code = 404 /\ UNCHANGED <<Guarded, execVars, audit, alive, starting>>)
      ]_vars

\* the closed set of step tags of the specification
StepTypes ==
    { "read_coords", "lookup_excel", "lookup_db", "lookup_api", "format_with_llm", "write_coords",
      "transcribe_audio", "record_audio" }

\* C13, as the specification states it: no stored workflow has a step whose
\* step_type is outside the closed set.
C13_KnownStepTypes ==
    \A i \in 1..Len(store) : \A k \in 1..Len(store[i].steps) :
        store[i].steps[k].step_type \in StepTypes

\* the input variable a step reads, Missing when it reads none
ReadBy(step) ==
    IF step.step_type \in {"lookup_excel", "format_with_llm"} THEN step.input_variable ELSE Missing

\* C15, as the specification states it: in every stored workflow the input
\* variable of a step is the output variable of an earlier enabled step (the
\* execute endpoint hands the interpreter no initial variables).
C15_InputsWritten ==
    \A i \in 1..Len(store) : \A k \in 1..Len(store[i].steps) :
        ReadBy(store[i].steps[k]) # Missing =>
            \E j \in 1..(k - 1) :
                /\ store[i].steps[j].enabled
                /\ WrittenBy(store[i].steps[j]) = ReadBy(store[i].steps[k])

\* C19, as the specification states it: the initial variables a client sends
\* with POST /api/visual-workflows/{id}/execute are in the environment of the
\* interpreter for that execution.
C19_SuppliedVariablesPresent ==
    (/\ http.endpoint = "POST /api/visual-workflows/{workflow_id}/execute"
     /\ exec_pc \in {"running", "done"})
    => \A x \in DOMAIN http.initial_variables :
          /\ x \in DOMAIN initial_variables
          /\ initial_variables[x] = http.initial_variables[x]

(***************************************************************************)
(* Claims about the visual workflow storage under requests in flight       *)
(***************************************************************************)

\* the calls that have returned
Done == { c \in 1..Len(calls) : calls[c].pc = "done" }

\* the orders the calls of a set can be made in, one after the other
Orders(S) == { order \in [1..Cardinality(S) -> S] : \A i, j \in 1..Cardinality(S) : i # j => order[i] # order[j] }

\* the file after the calls of order are made one after the other on workflows
RECURSIVE Replay(_, _)
Replay(order, workflows) ==
    IF order = <<>> THEN workflows
    ELSE Replay(Tail(order), Apply(calls[Head(order)].request, workflows).workflows)

\* made one after the other in the order, every call returns as it did
SameReturns(order) ==
    \A k \in 1..Len(order) :
        Apply(calls[order[k]].request, Replay(SubSeq(order, 1, k - 1), <<>>)).ok = calls[order[k]].ok

Token(t, i, j) ==
    /\ t[i] = "{" /\ t[j] = "}" /\ j > i + 1
    /\ \A k \in (i + 1)..(j - 1) : t[k] \in NameChars

\* the segments of a dotted path, in order
Segments(name) ==
    LET dots == { p \in 1..Len(name) : name[p] = "." }
        n == Cardinality(dots) + 1
        cut(m) == IF m = 0 THEN 0
                  ELSE IF m = n THEN Len(name) + 1
                  ELSE CHOOSE p \in dots : Cardinality({ q \in dots : q < p }) = m - 1
    IN [m \in 1..n |-> SubSeq(name, cut(m - 1) + 1, cut(m) - 1)]

\* a segment without the whitespace around it
Trimmed(segment) ==
    LET inked == { k \in 1..Len(segment) : segment[k] # " " }
    IN IF inked = {} THEN <<>>
       ELSE SubSeq(segment, CHOOSE k \in inked : \A l \in inked : k <= l,
                            CHOOSE k \in inked : \A l \in inked : k >= l)

\* what a token of the name stands for: the environments of the model nest
\* mappings one deep, so a path of three segments or more resolves in none
Expansion(name, vs) ==
    LET keys == [m \in DOMAIN Segments(name) |-> Trimmed(Segments(name)[m])]
        top == { k \in DOMAIN vs : keys[1] = <<k>> }
        sub == { item \in UNION { { vs[k].items[i] : i \in 1..Len(vs[k].items) } : k \in top } :
                    Len(keys) = 2 /\ keys[2] = <<item[1]>> }
    IN IF Len(keys) = 1 /\ top # {} THEN StrOf(vs[CHOOSE k \in top : TRUE])
       ELSE IF Len(keys) = 2 /\ sub # {} THEN (CHOOSE item \in sub : TRUE)[2]
       ELSE <<"{", "U", "N", "D", "E", "F", "I", "N", "E", "D", ":">> \o name \o <<"}">>

\* the template with every token replaced by what it stands for, and every
\* character outside the tokens as it is
Expanded(t, vs) ==
    Flatten([i \in 1..Len(t) |->
                IF \E j \in 1..Len(t) : Token(t, i, j)
                THEN Expansion(SubSeq(t, i + 1, (CHOOSE j \in 1..Len(t) : Token(t, i, j)) - 1), vs)
                ELSE IF \E a, b \in 1..Len(t) : Token(t, a, b) /\ a < i /\ i <= b
                THEN <<>>
                ELSE <<t[i]>>])

\* C20: _render_template returns, for every template and environment, the
\* template with each token {name} or {name.sub} whose path, its segments
\* trimmed, leads through the mappings to a value replaced by the string of
\* the value, each other token replaced by {UNDEFINED:name}, and the text
\* outside the tokens unchanged; the result depends on nothing but the
\* template and the environment.
C20_TemplateExpansion ==
    render.pc = "returned" => render.result = Expanded(render.template, render.variables)

\* a template with a token whose spaced segments resolve through a mapping,
\* text outside the tokens, a token that does not resolve and a token whose
\* value reads like a token has been expanded
C20_Witness ==
    /\ render.pc = "returned"
    /\ render.template = <<"{", " ", "b", " ", ".", " ", "c", " ", "}", "-",
                           "{", "b", ".", "a", "}", "{", "a", "}">>
    /\ render.result = <<"y", "-", "{", "U", "N", "D", "E", "F", "I", "N", "E", "D", ":", "b", ".", "a", "}",
                         "{", "a", "}">>

(***************************************************************************)
(* Claims about the registry of the engine                                 *)
(***************************************************************************)

\* a token whatever its letter case
Folded(token) ==
    CASE token \in {"ctrl", "CTRL"} -> "ctrl"
      [] token \in {"alt", "ALT"} -> "alt"
      [] token \in {"v", "V"} -> "v"
      [] token \in {"u", "U"} -> "u"
      [] OTHER -> token

\* two hotkeys that differ in letter case and whitespace at most
SameKeys(h1, h2) ==
    LET keys(h) == SelectSeq(h, LAMBDA token : token # " ")
    IN /\ Len(keys(h1)) = Len(keys(h2))
       /\ \A i \in 1..Len(keys(h1)) : Folded(keys(h1)[i]) = Folded(keys(h2)[i])

\* C21: once the engine is constructed, no two workflows of its registry have
\* the same hotkey up to letter case and whitespace.
C21_UniqueHotkeys ==
    engine.pc = "constructed" =>
        \A i, j \in 1..Len(engine.workflows) :
            i # j => ~SameKeys(engine.workflows[i].hotkey, engine.workflows[j].hotkey)

ValidationFailures == {"No workflow found for hotkey", "Text too short", "Invalid ICD-10 format"}

\* C23: a POST /api/trigger that passed authentication and whose run failed
\* because no enabled workflow has the hotkey, because the input text is out
\* of its length bounds or because the extracted ICD-10 code is malformed is
\* answered 400.
C23_ValidationAnswered400 ==
    [][(/\ Handled
        /\ http'.endpoint = "POST /api/trigger"
        /\ http'.code \notin {401, 422}
        /\ http'.body.triggered.error_message \in ValidationFailures)
          => http'.code = 400]_vars

\* the entries a step appends to the audit log
Written == { audit'[k] : k \in (Len(audit) + 1)..Len(audit') }

\* an entry holds the text in a field
Carries(entry, text) ==
    /\ ~text.null /\ text.chars # <<>>
    /\ ~entry.user_id.null /\ Contains(entry.user_id.chars, text.chars)

\* C24, as the specification states it: no entry a run of POST /api/trigger
\* writes holds a context field of the run, the user_id among them.
C24_Original ==
    [][(Handled /\ http'.endpoint = "POST /api/trigger") =>
          \A entry \in Written :
              ~Carries(entry, http'.context.selected_text) /\ ~Carries(entry, http'.context.user_id)]_vars

\* C24: a run of POST /api/trigger appends to the audit log, and every entry
\* it writes, on success and on every error path, is made of the id and the
\* connector of a workflow of the registry, the status, an error code and
\* the user_id of the context as supplied: no field is taken from another
\* context field.
C24_AuditFieldsFree ==
    [][(Handled /\ http'.endpoint = "POST /api/trigger") =>
          /\ SubSeq(audit', 1, Len(audit)) = audit
          /\ \A entry \in Written :
                /\ DOMAIN entry = {"event", "workflow_id", "connector", "status", "user_id", "error_code"}
                /\ entry.event = "workflow_execution"
                /\ \E i \in 1..Len(engine.workflows) :
                      /\ entry.workflow_id = engine.workflows[i].workflow_id
                      /\ entry.connector = engine.workflows[i].connector
                /\ entry.status \in {"success", "error"}
                /\ entry.error_code \in {"None", "EXECUTION_ERROR", "SERVER_ERROR", "TIMEOUT"}
                /\ entry.user_id = http'.context.user_id]_vars

\* a run with selected text and a user id has succeeded and written its
\* entry after the entry of a run that failed for want of selected text
C24_Witness ==
    /\ http # NoExchange
    /\ http.endpoint = "POST /api/trigger"
    /\ http.context.selected_text = Text(<<"f", "l", "u">>)
    /\ http.body.triggered.status = "success"
    /\ Len(audit) = 2
    /\ audit[1].error_code = "EXECUTION_ERROR" /\ audit[1].user_id = Null
    /\ audit[2].status = "success" /\ audit[2].user_id = Text(<<"d", "r">>)

\* C25: an authenticated GET /api/audit/recent?limit=N is answered 200, with
\* the last N entries of the audit log (a weaker statement than the claim's:
\* the answer the handler gives carries no entries to compare).
C25_RecentAuditAnswered ==
    [][(/\ Handled
        /\ http'.endpoint = "GET /api/audit/recent"
        /\ http'.code \notin {401, 422})
          => http'.code = 200]_vars

(***************************************************************************)
(* Claims about the picker endpoints                                       *)
(***************************************************************************)

\* the sessions other than s are as they were
OthersKept(s) ==
    /\ DOMAIN picker_sessions' \ {s} = DOMAIN picker_sessions \ {s}
    /\ \A t \in DOMAIN picker_sessions \ {s} : picker_sessions'[t] = picker_sessions[t]

\* C26: an activation makes its session the current one, waiting, with its
\* field name and null coordinates, and nothing else moves the current
\* pointer; a report (x, y) is bound to the current session and to no other,
\* and leaves its field name; GET /api/picker/status/s answers 'completed'
\* with the field name and the coordinates {x, y} of s once a report was
\* bound to s after its activation, and 'waiting' with the field name and
\* null coordinates before.
C26_PickerChoreography ==
    [][Handled =>
         /\ (http'.endpoint = "POST /api/picker/activate" /\ http'.code = 200) =>
               /\ current_session_id' = http'.body.session_id
               /\ current_session_id' \in DOMAIN picker_sessions'
               /\ picker_sessions'[current_session_id'].field_name = http'.body.field_name
               /\ picker_sessions'[current_session_id'].coordinates = <<>>
               /\ OthersKept(current_session_id')
         /\ ~(http'.endpoint = "POST /api/picker/activate" /\ http'.code = 200) =>
               current_session_id' = current_session_id
         /\ (http'.endpoint = "POST /api/picker/coordinates" /\ http'.code = 200) =>
               /\ DOMAIN picker_sessions' = DOMAIN picker_sessions
               /\ OthersKept(current_session_id)
               /\ current_session_id \in DOMAIN picker_sessions =>
                     /\ picker_sessions'[current_session_id].coordinates = http'.body.coordinates
                     /\ Len(http'.body.coordinates) = 2
                     /\ picker_sessions'[current_session_id].field_name
                           = picker_sessions[current_session_id].field_name
         /\ (http'.endpoint = "GET /api/picker/status/{session_id}" /\ http'.code = 200) =>
               /\ picker_sessions' = picker_sessions
               /\ http'.path \in DOMAIN picker_sessions
               /\ http'.body.field_name = picker_sessions[http'.path].field_name
               /\ http'.body.coordinates = picker_sessions[http'.path].coordinates
               /\ http'.body.status = IF picker_sessions[http'.path].coordinates = <<>>
                                      THEN "waiting" ELSE "completed"
         /\ http'.endpoint \notin {"POST /api/picker/activate", "POST /api/picker/coordinates"} =>
               picker_sessions' = picker_sessions ]_vars

\* s1 was activated for patient_coords, then s2 for output_coords; the
\* report (0, 120) went to s2, and the status of s2 is answered 'completed'
\* with its field and coordinates while s1 still waits
C26_Witness ==
    /\ http # NoExchange
    /\ http.endpoint = "GET /api/picker/status/{session_id}"
    /\ http.path = "s2"
    /\ http.body.status = "completed"
    /\ http.body.field_name = "output_coords"
    /\ http.body.coordinates = <<"0", "120">>
    /\ current_session_id = "s2"
    /\ "s1" \in DOMAIN picker_sessions
    /\ picker_sessions["s1"] = Session("patient_coords", NoCoordinates)

(***************************************************************************)
(* Claims about the agent control endpoints                                *)
(***************************************************************************)

\* a start_agent call that spawned a child answers after its sleep
Resumed ==
    /\ Handled
    /\ http'.endpoint = "POST /api/agent/start"
    /\ starting # <<>>
    /\ starting' = Tail(starting)

\* what GET /api/agent/status must report in a state
Running == agent_process # 0 /\ agent_process \in alive

\* C27: a start_agent call whose child has exited by the end of the warm-up
\* answers 500 and leaves the handle null, and GET /api/agent/status reports
\* running exactly when the handle is non-null and its child has not exited
\* (so not running after the 500, until another start).
C27_CrashedStartAnswered500 ==
    [][/\ (Resumed /\ Head(starting) \notin alive) => (http'.code = 500 /\ agent_process' = 0)
       /\ (Handled /\ http'.endpoint = "GET /api/agent/status" /\ http'.code = 200) =>
             (http'.body.status = "running") = Running ]_vars

C29_ReadyOnlyAfterHealthy ==
    (agent.pc = "ready" \/ agent.listeners # {}) => agent.healthy

\* every request the callback server got has been answered
Answered == \A r \in DOMAIN writes : writes[r].pc = "done"

\* every request was a paste insertion that succeeded
PastedAll ==
    \A r \in DOMAIN writes : writes[r].insert_method = "paste" /\ writes[r].code = 200

\* C30: once the write_coords requests with insert_method 'paste' have all
\* succeeded, however the callback server interleaved them, the clipboard holds
\* what it held before the first insertion started.
C30_ClipboardRestored ==
    (writes # <<>> /\ Answered /\ PastedAll) => clipboard = UserClipboard

(***************************************************************************)
(* Claims about the declarative path                                       *)
(***************************************************************************)

\* the exchange is an answered POST /api/trigger that reached the engine
Triggered(exchange) ==
    /\ exchange # NoExchange
    /\ exchange.endpoint = "POST /api/trigger"
    /\ exchange.code = 200

\* the enabled workflows of the configuration whose hotkey is the one sent,
\* letter case and spaces apart
Resolving(hotkey) ==
    { i \in 1..Len(ConfiguredWorkflows) :
        /\ ConfiguredWorkflows[i].enabled
        /\ SameKeys(ConfiguredWorkflows[i].hotkey, hotkey) }

\* C32: a successful trigger returns one insertion instruction per output
\* specification of the workflow, in the order of its output list, each with
\* the target_field, mode, type, navigation, click_before and insert_method of
\* its specification, a rendered content, and a label when the specification
\* has one.
C32_InstructionPerOutput ==
    (Triggered(http) /\ http.body.triggered.status = "success") =>
        LET output == Configured(http.body.triggered.workflow_id).output
            insertions == http.body.triggered.insertions
        IN /\ Len(insertions) = Len(output)
           /\ \A i \in 1..Len(output) :
                 /\ insertions[i].target_field = output[i].target_field
                 /\ insertions[i].mode = output[i].mode
                 /\ insertions[i].type = output[i].type
                 /\ insertions[i].navigation = output[i].navigation
                 /\ insertions[i].click_before = output[i].click_before
                 /\ insertions[i].insert_method = output[i].insert_method
                 /\ insertions[i].label.null <=> output[i].label = None

\* C34: a trigger that resolves a workflow appends exactly one entry to the
\* audit log, with status 'success' exactly when the response has status
\* 'success', on the connector-failure path too; a trigger that resolves no
\* workflow appends none.
C34_OneEntryPerTrigger ==
    [][(Handled /\ Triggered(http')) =>
          IF Resolving(http'.hotkey) # {}
          THEN /\ Len(audit') = Len(audit) + 1
               /\ SubSeq(audit', 1, Len(audit)) = audit
               /\ audit'[Len(audit')].status = "success"
                     <=> http'.body.triggered.status = "success"
          ELSE audit' = audit]_vars

\* the input text of the context is outside the length bounds of the workflow
OutOfBounds(wf, context) ==
    LET length == IF context.selected_text.null THEN 0 ELSE Len(context.selected_text.chars) IN
    \/ length < wf.min_length
    \/ wf.max_length # NoMaxLength /\ length > wf.max_length

\* C35: for a trigger whose hotkey matches no enabled workflow, or whose input
\* text is shorter than the min_length or longer than the max_length of the
\* workflow it matches, no request goes to the connector.
C35_ValidatedBeforeSent ==
    (/\ Triggered(http)
     /\ \/ Resolving(http.hotkey) = {}
        \/ \E i \in Resolving(http.hotkey) :
              /\ \A j \in Resolving(http.hotkey) : i <= j
              /\ OutOfBounds(ConfiguredWorkflows[i], http.context))
    => http.connector_requests = <<>>

\* a text longer than the max_length of its workflow was refused and not sent
C35_Witness ==
    /\ Triggered(http)
    /\ http.hotkey = Hotkey("B")
    /\ http.context.selected_text = Text(<<"f", "l", "u">>)
    /\ http.body.triggered.status = "error"
    /\ http.body.triggered.error_message = "Text too long"
    /\ http.connector_requests = <<>>

\* C36: when a required field of the workflow's validation has no match for
\* its JSON path in the connector response, the trigger returns status 'error'
\* and no insertions.
C36_RequiredFieldMissing ==
    (/\ Triggered(http)
     /\ http.connector_requests # <<>>
     /\ Resolving(http.hotkey) # {}
     /\ LET wf == Configured(http.body.triggered.workflow_id) IN
        /\ ~wf.validation.none
        /\ \E i \in 1..Len(wf.validation.required_fields) :
              /\ wf.validation.required_fields[i] \in DOMAIN Mappings
              /\ Mappings[wf.validation.required_fields[i]] \notin http.connector_paths)
    => /\ http.body.triggered.status = "error"
       /\ http.body.triggered.insertions = <<>>

(***************************************************************************)
(* Claims about the insertions of the agent                                *)
(***************************************************************************)

\* the trigger ended in an error: a MiddlewareError (an HTTP error, a timeout,
\* a connection failure) or a response with status 'error'
Erroneous(outcome) == outcome.raised \/ outcome.status = "error"

\* C31: when the trigger of a pressed hotkey ends in an error, the agent makes
\* no click, keystroke or paste and does not write the clipboard.
C31_ErrorLeavesDesktop ==
    (pressed.pc # "idle" /\ Erroneous(pressed.outcome)) =>
        /\ pressed.ui_events = <<>>
        /\ ~pressed.restored
        /\ pressed.inserted = <<>>

\* a response with status 'error' that held insertions was dropped
C31_Witness ==
    /\ pressed.pc = "done"
    /\ ~pressed.outcome.raised
    /\ pressed.outcome.status = "error"
    /\ pressed.outcome.insertions # <<>>
    /\ pressed.ui_events = <<>>

\* the events the insertion of an instruction is to make: the pause, the click
\* at click_before, the preparation of the mode, the content by paste or typed,
\* the newline of prepend, the navigation keys
Stated(instruction) ==
    << Event("pause", "") >>
    \o (IF instruction.click_before # None THEN << Event("click", instruction.click_before) >> ELSE <<>>)
    \o (CASE instruction.mode = "replace" -> << Event("hotkey", "ctrl+a"), Event("press", "delete") >>
          [] instruction.mode = "append" -> << Event("hotkey", "ctrl+end"), Event("write", NewLine) >>
          [] instruction.mode = "prepend" -> << Event("hotkey", "ctrl+home") >>)
    \o << Event(IF instruction.insert_method = "paste" THEN "paste" ELSE "write", instruction.content) >>
    \o (IF instruction.mode = "prepend" THEN << Event("write", NewLine) >> ELSE <<>>)
    \o (IF instruction.navigation # None THEN Navigate(instruction.navigation) ELSE <<>>)

RECURSIVE StatedAll(_)
StatedAll(instructions) ==
    IF instructions = <<>> THEN <<>>
    ELSE Stated(Head(instructions)) \o StatedAll(Tail(instructions))

\* C33: the instructions are executed in list order, and the events of the
\* desktop are, instruction after instruction: the pause, the click at
\* click_before when it is set, the preparation of the mode, the content pasted
\* or typed as insert_method says, the newline of prepend, the navigation keys.
C33_EventsInOrder ==
    /\ pressed.inserted \o pressed.remaining = Accepted(pressed.outcome)
    /\ pressed.ui_events = StatedAll(pressed.inserted)

(***************************************************************************)
(* Claims about the agent processes under interleaved requests             *)
(***************************************************************************)

Waiting(sessions, s) == s \in DOMAIN sessions /\ sessions[s].coordinates = <<>>

\* the session is known and has coordinates
Completed(sessions, s) == s \in DOMAIN sessions /\ sessions[s].coordinates # <<>>

\* C38: POST /api/picker/coordinates changes the coordinates of the current
\* session and nothing else: the field name of that session, the other
\* sessions, the set of sessions and the current pointer stay, and nothing
\* changes when no session was ever activated; so a session superseded before
\* any report stays waiting, and a completed session is waiting again only
\* after an activation of it.
C38_ReportFrame ==
    [][/\ (Handled /\ http'.endpoint = "POST /api/picker/coordinates") =>
             /\ current_session_id' = current_session_id
             /\ DOMAIN picker_sessions' = DOMAIN picker_sessions
             /\ \A s \in DOMAIN picker_sessions :
                   /\ picker_sessions'[s].field_name = picker_sessions[s].field_name
                   /\ s # current_session_id => picker_sessions'[s] = picker_sessions[s]
             /\ current_session_id = None => picker_sessions' = picker_sessions
             /\ http'.code # 200 => picker_sessions' = picker_sessions
             /\ \A s \in SessionIds \ {current_session_id} :
                   Waiting(picker_sessions, s) => Waiting(picker_sessions', s)
       /\ \A s \in SessionIds :
             (Completed(picker_sessions, s) /\ Waiting(picker_sessions', s)) =>
                 /\ Handled
                 /\ http'.endpoint = "POST /api/picker/activate"
                 /\ http'.code = 200
                 /\ http'.body.session_id = s ]_vars

\* s1 was activated and then superseded by s2; the report went to s2, and s1
\* still waits with its field name
C38_Witness ==
    /\ http # NoExchange
    /\ http.endpoint = "POST /api/picker/coordinates"
    /\ http.code = 200
    /\ current_session_id = "s2"
    /\ Completed(picker_sessions, "s2")
    /\ Waiting(picker_sessions, "s1")
    /\ picker_sessions["s1"].field_name = "output_coords"


(***************************************************************************)
(* Claims about write_coords steps with unresolved placeholders            *)
(***************************************************************************)

\* the content holds the token of a variable _render_template did not find
HasUndefined(content) ==
    \E k \in 1..Len(content) :
        /\ k + Len(UndefinedToken) - 1 <= Len(content)
        /\ SubSeq(content, k, k + Len(UndefinedToken) - 1) = UndefinedToken

\* the for loop runs the step it is at
StepRuns == exec_pc = "running" /\ Len(executed') = Len(executed) + 1

\* the step that runs posts to the agent and the agent answers 200
Answered200 ==
    /\ Len(agent_posts') = Len(agent_posts) + 1
    /\ agent_posts'[Len(agent_posts')].status_code = 200

\* C39: a write_coords step whose content_template names a variable the
\* environment does not hold does not fail for it: when the agent answers
\* 200, the content it was posted is the rendered template with its
\* {UNDEFINED:...} token, the step reports success and the loop goes on; the
\* step reports an error only when no 200 came back; and a workflow all of
\* whose steps were posted and answered 200 reports success.
C39_UndefinedStillPosted ==
    [][/\ (StepRuns /\ HasUndefined(RenderTemplate(workflow[position].content_template, variables)))
          => /\ Answered200
                => /\ agent_posts'[Len(agent_posts')].content =
                          RenderTemplate(workflow[position].content_template, variables)
                   /\ results'[Len(results')].status = "success"
                   /\ exec_pc' = "running"
             /\ (Len(results') > Len(results) /\ results'[Len(results')].status = "error")
                => ~Answered200
       /\ (/\ exec_pc' = "done"
           /\ Len(agent_posts') = Len(workflow')
           /\ \A i \in 1..Len(agent_posts') : agent_posts'[i].status_code = 200)
          => /\ response'.status = "success"
             /\ \A i \in 1..Len(response'.steps) : response'.steps[i].status = "success"]_vars

\* a workflow reports success although the content posted for one of its
\* steps holds the token
C39_Witness ==
    /\ exec_pc = "done"
    /\ response.status = "success"
    /\ \E i \in 1..Len(agent_posts) :
          /\ HasUndefined(agent_posts[i].content)
          /\ agent_posts[i].status_code = 200
          /\ response.steps[i].status = "success"

====
